---- MODULE Spec2Model ----
(***************************************************************************)
(* SparsePage of src/data/data.cc: the CSR container (offset, data,        *)
(* base_rowid) and its operations Push(adapter batch), Push(page),         *)
(* PushCSC, GetTranspose, SortIndices, SortRows and Reindex.               *)
(*                                                                         *)
(* Conventions.                                                            *)
(*  - A C++ vector is a sequence; C++ position p is element p + 1.         *)
(*  - An unsigned integer (size_t, bst_idx_t, bst_feature_t) is held as    *)
(*    the representative of its residue class that is nearest to zero:     *)
(*    2^w - 1 is held as -1.  Addition and subtraction are then the        *)
(*    integer ones and only comparison has to be unsigned (ULt, UGe).      *)
(*  - A float is an integer code: the finite values are small integers,    *)
(*    NInf and PInf lie below and above all of them, NaN is a code apart   *)
(*    that every comparison treats as unordered.                           *)
(***************************************************************************)
EXTENDS Integers, Sequences, FiniteSets, TLC

VARIABLES
  offset,       \* SparsePage::offset of the page operated on
  data,         \* SparsePage::data
  base_rowid,   \* SparsePage::base_rowid
  op,           \* the operation that produced this state
  pre_offset,   \* offset before that operation
  pre_data,     \* data before that operation
  pre_base_rowid, \* base_rowid before that operation
  batch,        \* the adapter batch of the last operation, if Push(batch)
  missing,      \* its missing sentinel
  nthread,      \* nthread / n_threads of the last operation
  other,        \* the page argument of the last operation, if Push(page) / PushCSC
  arg,          \* num_columns / feature_offset of the last operation, if GetTranspose / Reindex
  ret,          \* value returned by the last operation, if Push(batch)
  transpose,    \* page returned by the last operation, if GetTranspose
  err,          \* "none", or the failure the last operation ended with
  run,          \* the Push(batch) call in progress, statement by statement
  meta          \* a MetaInfo and its last Extend call

vars == <<offset, data, base_rowid, op, pre_offset, pre_data, pre_base_rowid, batch, missing,
          nthread, other, arg, ret, transpose, err, run, meta>>

----------------------------------------------------------------------------
(* Bounds of the model *)

\* most lines of an adapter batch
MaxLines == 2
\* most tuples of an adapter batch
MaxTuples == 2
\* most rows of the page a sequence of operations builds
MaxRows == 2
\* most entries of that page
MaxData == 2
\* most rows a MetaInfo accumulates
MaxInfoRows == 2

----------------------------------------------------------------------------
(* Floats *)

NaN == 9999
PInf == 1000
NInf == -1000

\* the float values adapter batches carry
BatchValues == {0, 1, NaN, PInf, NInf}
\* the missing sentinels Push is called with
MissingValues == {0, NaN, PInf}

\* common::CheckNAN
CheckNAN(v) == v = NaN
\* std::isinf
IsInf(v) == v = PInf \/ v = NInf
\* operator!= on floats: NaN differs from everything, itself included
FloatNe(a, b) == CheckNAN(a) \/ CheckNAN(b) \/ a # b
\* operator< on floats: false when either side is NaN
FloatLt(a, b) == ~CheckNAN(a) /\ ~CheckNAN(b) /\ a < b

----------------------------------------------------------------------------
(* Unsigned integers *)

\* a < b as unsigned numbers
ULt(a, b) == IF (a < 0) = (b < 0) THEN a < b ELSE b < 0
\* a >= b as unsigned numbers
UGe(a, b) == ~ULt(a, b)

Max(a, b) == IF a >= b THEN a ELSE b
Min(a, b) == IF a <= b THEN a ELSE b
\* std::max on unsigned numbers
UMax(a, b) == IF ULt(a, b) THEN b ELSE a

----------------------------------------------------------------------------
(* Entries and pages *)

\* xgboost::Entry(index, fvalue)
Entry(i, v) == [index |-> i, fvalue |-> v]
\* Entry(): the value-initialised entry a resized vector is padded with
DefaultEntry == Entry(0, 0)

\* no Push(batch) call in progress
NoRun == [phase |-> "idle"]

\* no MetaInfo under observation
NoMeta == [num_row_ |-> 0]

\* data::COOTuple
COOTuple(r, c, v) == [row_idx |-> r, column_idx |-> c, value |-> v]

Last(s) == s[Len(s)]

\* SparsePage::Size(): the number of rows
Size(off) == IF Len(off) = 0 THEN 0 ELSE Len(off) - 1

\* std::vector::resize(n): truncate, or pad with pad
Resize(s, n, pad) == [i \in 1..n |-> IF i <= Len(s) THEN s[i] ELSE pad]

\* the entries of local row i (0-based) of a page
RowSlice(off, dat, i) == SubSeq(dat, off[i + 1] + 1, off[i + 2])

----------------------------------------------------------------------------
(* common::ParallelGroupBuilder (src/common/group_data.h), the two-pass    *)
(* bucketing primitive.  thread_rptr[t][g - base + 1] is the budget of     *)
(* thread t for group g; groups are numbered from base_row_offset.         *)

RECURSIVE SumSeq(_, _)
\* s[1] + ... + s[n]
SumSeq(s, n) == IF n = 0 THEN 0 ELSE s[n] + SumSeq(s, n - 1)

\* InitBudget(max_key, nthread): the zeroed per-thread-per-group counter table
InitBudget(max_key, nthr, base) ==
  [base |-> base,
   thread_rptr |-> [t \in 0..(nthr - 1) |-> [g \in 1..max_key |-> 0]]]

\* InitBudget cannot allocate a table for a group count that wrapped around
InitBudgetFails(max_key) == max_key < 0

\* the number of groups the table holds
NumGroups(b) == Len(b.thread_rptr[0])

\* AddBudget rejects a group below base_row_offset, and cannot grow the table
\* to a group whose index wrapped around
AddBudgetRejects(b, key) == ULt(key, b.base) \/ key < 0

\* AddBudget(key, threadid): budget[threadid][key] += 1, the table growing to hold key
AddBudget(b, key, tid) ==
  LET k == key - b.base + 1
      n == Max(NumGroups(b), k)
      grown == [t \in DOMAIN b.thread_rptr |-> Resize(b.thread_rptr[t], n, 0)]
  IN  [b EXCEPT !.thread_rptr = [grown EXCEPT ![tid][k] = @ + 1]]

\* the entries all threads budgeted for the k-th group of the table
GroupTotal(b, k) ==
  LET nthr == Cardinality(DOMAIN b.thread_rptr)
  IN  SumSeq([t \in 1..nthr |-> b.thread_rptr[t - 1][k]], nthr)

\* the entries budgeted for the first k groups of the table
GroupPrefix(b, k) == SumSeq([g \in 1..k |-> GroupTotal(b, g)], k)

\* InitStorage(): the group totals become a prefix sum appended to rptr, data is
\* resized to the new total, and the write cursor of thread t in a group is the
\* group's start plus the budgets of the threads below t
InitStorage(b, rptr, dat) ==
  LET n == NumGroups(b)
      fill == IF Len(rptr) = 0 THEN 0 ELSE Last(rptr)
      new_rptr == rptr \o [k \in 1..n |-> fill + GroupPrefix(b, k)]
      cursor == [t \in DOMAIN b.thread_rptr |->
                   [k \in 1..n |->
                      fill + GroupPrefix(b, k - 1)
                      + SumSeq([u \in 1..t |-> b.thread_rptr[u - 1][k]], t)]]
  IN  [rptr |-> new_rptr,
       data |-> Resize(dat, IF Len(new_rptr) = 0 THEN 0 ELSE Last(new_rptr), DefaultEntry),
       base |-> b.base,
       cursor |-> cursor]

\* Push(key, value, threadid): write at the cursor of (threadid, key), advance it
BuilderPush(s, key, value, tid) ==
  LET k == key - s.base + 1
      rp == s.cursor[tid][k]
  IN  [s EXCEPT !.data[rp + 1] = value, !.cursor[tid][k] = rp + 1]

----------------------------------------------------------------------------
(* SparsePage::Push(AdapterBatchT const&, float missing, int32 nthread)    *)

\* batch.Size(): the number of lines
BatchSize(bt) == Len(bt.lines)

\* nthread = kIsRowMajor ? nthread : 1
EffectiveThreads(bt, nthr) == IF bt.rowMajor THEN nthr ELSE 1

\* KeyOf with the page's base_rowid left out
KeyOf_NoBaseRowid(row_idx, brid) == row_idx

\* key = element.row_idx - base_rowid, in size_t
KeyOf(row_idx, brid) == row_idx - brid

\* CHECK_GE(key, builder_base_row_offset)
KeyAdmitted(key, base) == UGe(key, base)

\* IsInadmissible testing for a finite sentinel instead of a non-infinite one
IsInadmissible_FiniteMissing(miss, value) == (~IsInf(miss) /\ ~CheckNAN(miss)) /\ IsInf(value)

\* !std::isinf(missing) && std::isinf(element.value)
IsInadmissible(miss, value) == ~IsInf(miss) /\ IsInf(value)

\* Pass1Valid without the comparison with missing
Pass1Valid_IgnoresMissing(value, miss) == ~CheckNAN(value)

\* !common::CheckNAN(element.value) && element.value != missing
Pass1Valid(value, miss) == ~CheckNAN(value) /\ FloatNe(value, miss)

\* data::IsValidFunctor{missing}(element)
IsValid(value, miss) == ~(CheckNAN(value) \/ ~FloatNe(value, miss))

\* MaxColumnsLocal without the + 1
MaxColumnsLocal_NoPlusOne(m, column_idx) == UMax(m, column_idx)

\* std::max(max_columns_local, element.column_idx + 1)
MaxColumnsLocal(m, column_idx) == UMax(m, column_idx + 1)

\* ExpectedRows with the estimate from the last element used for row-major
\* batches too
ExpectedRows_FromLastElement(bt, brid) ==
  LET n == BatchSize(bt)
      last_line == bt.lines[n]
  IN  IF n > 0 /\ Len(last_line) > 0
        THEN Last(last_line).row_idx - brid
        ELSE 0

\* expected_rows: the last element's key, replaced by batch_size when row-major
ExpectedRows(bt, brid) ==
  LET n == BatchSize(bt)
      last_line == bt.lines[n]
      estimate == IF n > 0 /\ Len(last_line) > 0
                    THEN Last(last_line).row_idx - brid
                    ELSE 0
  IN  IF bt.rowMajor THEN n ELSE estimate

\* thread_size = batch_size / nthread
ThreadSize(batch_size, nthr) == batch_size \div nthr
\* SliceBegin with every thread starting at the first line
SliceBegin_FromZero(tid, thread_size) == 0

\* begin = tid * thread_size
SliceBegin(tid, thread_size) == tid * thread_size
\* SliceEnd with the last thread's slice cut like the others'
SliceEnd_NoRemainder(tid, nthr, thread_size, batch_size) == (tid + 1) * thread_size

\* end = tid != nthread - 1 ? (tid + 1) * thread_size : batch_size
SliceEnd(tid, nthr, thread_size, batch_size) ==
  IF tid # nthr - 1 THEN (tid + 1) * thread_size ELSE batch_size

RECURSIVE SliceTuples(_, _, _)
\* the tuples of lines begin..end-1 in the order the loops visit them
SliceTuples(lines, begin, end) ==
  IF begin >= end THEN <<>>
  ELSE lines[begin + 1] \o SliceTuples(lines, begin + 1, end)

\* the tuples thread tid visits, in either pass
ThreadTuples(bt, tid, nthr) ==
  LET n == BatchSize(bt)
      ts == ThreadSize(n, nthr)
  IN  SliceTuples(bt.lines, SliceBegin(tid, ts), SliceEnd(tid, nthr, ts, n))

\* one iteration of the first pass's inner loop by thread tid.  st holds the
\* builder, the shared flag valid, max_columns_vector and, per thread, the
\* exception that ended its exec.Run ("none" while it runs)
Pass1Step(st, tid, e, miss, brid, base) ==
  LET v1 == IF IsInadmissible(miss, e.value) THEN FALSE ELSE st.valid
      key == KeyOf(e.row_idx, brid)
      s1 == [st EXCEPT !.valid = v1]
      s2 == [s1 EXCEPT !.max_columns[tid] = MaxColumnsLocal(@, e.column_idx)]
  IN  IF st.threw[tid] # "none" THEN st
      ELSE IF ~KeyAdmitted(key, base) THEN [s1 EXCEPT !.threw[tid] = "contract"]
      ELSE IF ~Pass1Valid(e.value, miss) THEN s2
      ELSE IF AddBudgetRejects(s2.builder, key) THEN [s2 EXCEPT !.threw[tid] = "builder"]
      ELSE [s2 EXCEPT !.builder = AddBudget(@, key, tid)]

RECURSIVE Pass1Thread(_, _, _, _, _, _, _)
\* the first pass of thread tid over its tuples ts, from the i-th on
Pass1Thread(st, tid, ts, i, miss, brid, base) ==
  IF i > Len(ts) THEN st
  ELSE Pass1Thread(Pass1Step(st, tid, ts[i], miss, brid, base), tid, ts, i + 1,
                   miss, brid, base)

RECURSIVE Pass1(_, _, _, _, _, _, _)
\* the first parallel region: threads tid..nthr-1 (each thread writes its own
\* budgets and its own maximum, and valid only ever falls)
Pass1(st, bt, tid, nthr, miss, brid, base) ==
  IF tid >= nthr THEN st
  ELSE Pass1(Pass1Thread(st, tid, ThreadTuples(bt, tid, nthr), 1, miss, brid, base),
             bt, tid + 1, nthr, miss, brid, base)

\* Pass2Step with every entry pushed to the first group of the builder
Pass2Step_FirstGroup(s, tid, e, miss, brid) ==
  IF IsValid(e.value, miss)
    THEN BuilderPush(s, s.base, Entry(e.column_idx, e.value), tid)
    ELSE s

\* one iteration of the second pass's inner loop by thread tid
Pass2Step(s, tid, e, miss, brid) ==
  LET key == KeyOf(e.row_idx, brid)
  IN  IF IsValid(e.value, miss)
        THEN BuilderPush(s, key, Entry(e.column_idx, e.value), tid)
        ELSE s

RECURSIVE Pass2Thread(_, _, _, _, _, _)
Pass2Thread(s, tid, ts, i, miss, brid) ==
  IF i > Len(ts) THEN s
  ELSE Pass2Thread(Pass2Step(s, tid, ts[i], miss, brid), tid, ts, i + 1, miss, brid)

RECURSIVE Pass2(_, _, _, _, _, _)
\* the second parallel region
Pass2(s, bt, tid, nthr, miss, brid) ==
  IF tid >= nthr THEN s
  ELSE Pass2(Pass2Thread(s, tid, ThreadTuples(bt, tid, nthr), 1, miss, brid),
             bt, tid + 1, nthr, miss, brid)

RECURSIVE MaxOver(_, _)
\* max_columns = max over max_columns_vector
MaxOver(f, n) == IF n = 0 THEN 0 ELSE UMax(MaxOver(f, n - 1), f[n - 1])

\* the outcome of a Push that ended with one of the failures errs
Failed(off, dat, errs) == [offset |-> off, data |-> dat, ret |-> 0, errs |-> errs]

\* BuilderBase with the builder constructed without a base row offset
BuilderBase_Zero(off) == 0

\* builder_base_row_offset = this->Size()
BuilderBase(off) == Size(off)

\* EmptyPush with the early return taken after a row was opened
EmptyPush_OpensRow(off, dat) ==
  [offset |-> Append(off, Last(off)), data |-> dat, ret |-> 0, errs |-> {"none"}]

\* if (batch_size == 0) return max_columns;
EmptyPush(off, dat) == [offset |-> off, data |-> dat, ret |-> 0, errs |-> {"none"}]

\* AfterPass1 with CHECK(valid) placed behind InitStorage()
AfterPass1_ChecksAfterInitStorage(st1, off, dat, brid, bt, miss, nthr) ==
  LET thrown == {st1.threw[t] : t \in 0..(nthr - 1)} \ {"none"}
      s0 == InitStorage(st1.builder, off, dat)
      s1 == Pass2(s0, bt, 0, nthr, miss, brid)
  IN  IF thrown # {} THEN Failed(off, dat, thrown)
      ELSE IF ~st1.valid THEN Failed(s0.rptr, s0.data, {"inf"})
      ELSE [offset |-> s1.rptr, data |-> s1.data,
            ret |-> MaxOver(st1.max_columns, nthr), errs |-> {"none"}]

\* after the first parallel region: exec.Rethrow(), CHECK(valid), the reduction
\* of max_columns_vector, InitStorage(), the second parallel region, the return
AfterPass1(st1, off, dat, brid, bt, miss, nthr) ==
  LET thrown == {st1.threw[t] : t \in 0..(nthr - 1)} \ {"none"}
      s0 == InitStorage(st1.builder, off, dat)
      s1 == Pass2(s0, bt, 0, nthr, miss, brid)
  IN  IF thrown # {} THEN Failed(off, dat, thrown)
      ELSE IF ~st1.valid THEN Failed(off, dat, {"inf"})
      ELSE [offset |-> s1.rptr, data |-> s1.data,
            ret |-> MaxOver(st1.max_columns, nthr), errs |-> {"none"}]

\* Push(batch, missing, nthread) on the page (off, dat, brid): the page afterwards,
\* the value returned and the failures the call can end with ({"none"}: it returns;
\* an exception of the first pass is the one of whichever thread threw first)
PushAdapter(off, dat, brid, bt, miss, nthr_in) ==
  LET nthr == EffectiveThreads(bt, nthr_in)
      base == BuilderBase(off)
      expected_rows == ExpectedRows(bt, brid)
      st0 == [builder |-> InitBudget(expected_rows, nthr, base),
              valid |-> TRUE,
              max_columns |-> [t \in 0..(nthr - 1) |-> 0],
              threw |-> [t \in 0..(nthr - 1) |-> "none"]]
      st1 == Pass1(st0, bt, 0, nthr, miss, brid, base)
  IN  IF BatchSize(bt) = 0 THEN EmptyPush(off, dat)
      ELSE IF InitBudgetFails(expected_rows) THEN Failed(off, dat, {"builder"})
      ELSE AfterPass1(st1, off, dat, brid, bt, miss, nthr)

----------------------------------------------------------------------------
(* SparsePage::Push(const SparsePage&): row-major concatenation            *)

\* PushPage without top added to the copied offsets
PushPage_OffsetsNotShifted(off, dat, o) ==
  LET top == Last(off)
      resized == Resize(dat, top + Len(o.data), DefaultEntry)
      copied == [i \in 1..Len(resized) |->
                   IF i > top /\ i <= top + Len(o.data) THEN o.data[i - top] ELSE resized[i]]
      begin == Len(off)
  IN  [offset |-> [i \in 1..(begin + Size(o.offset)) |->
                     IF i <= begin THEN off[i] ELSE o.offset[i - begin + 1]],
       data |-> copied]

\* PushPage with batch.data copied to the front of data instead of position top
PushPage_CopiedToFront(off, dat, o) ==
  LET top == Last(off)
      resized == Resize(dat, top + Len(o.data), DefaultEntry)
      copied == [i \in 1..Len(resized) |->
                   IF i <= Len(o.data) THEN o.data[i] ELSE resized[i]]
      begin == Len(off)
  IN  [offset |-> [i \in 1..(begin + Size(o.offset)) |->
                     IF i <= begin THEN off[i] ELSE top + o.offset[i - begin + 1]],
       data |-> copied]

PushPage(off, dat, o) ==
  LET top == Last(off)
      resized == Resize(dat, top + Len(o.data), DefaultEntry)
      \* memcpy of batch.data.Size() entries to position top
      copied == [i \in 1..Len(resized) |->
                   IF i > top /\ i <= top + Len(o.data) THEN o.data[i - top] ELSE resized[i]]
      begin == Len(off)
  IN  [offset |-> [i \in 1..(begin + Size(o.offset)) |->
                     IF i <= begin THEN off[i] ELSE top + o.offset[i - begin + 1]],
       data |-> copied]

----------------------------------------------------------------------------
(* SparsePage::PushCSC(const SparsePage&): column-major merge              *)

RECURSIVE MergeColumns(_, _, _, _, _, _)
\* the loop over the n_features columns from column i on: acc holds the buffer
\* data, the buffer offset, beg, ptr and the check that failed, if one did
MergeColumns(acc, i, off, dat, o, n_features) ==
  IF i >= n_features \/ acc.err # "none" THEN acc
  ELSE
    LET self_beg == off[i + 1]
        self_length == off[i + 2] - self_beg
        beg1 == acc.beg + self_length
        other_beg == o.offset[i + 1]
        other_length == o.offset[i + 2] - other_beg
        beg2 == beg1 + other_length
        d1 == [p \in 1..Len(acc.data) |->
                 IF p > acc.beg /\ p <= beg1 THEN dat[self_beg + (p - acc.beg)]
                 ELSE IF p > beg1 /\ p <= beg2 THEN o.data[other_beg + (p - beg1)]
                 ELSE acc.data[p]]
    IN  IF ~(acc.beg <= Len(acc.data)) \/ ~(beg1 <= Len(acc.data))
             \/ ~(acc.ptr < Len(acc.offset))
          THEN [acc EXCEPT !.err = "check"]
          ELSE MergeColumns([data |-> d1,
                             offset |-> [acc.offset EXCEPT ![acc.ptr + 1] = beg2],
                             beg |-> beg2, ptr |-> acc.ptr + 1, err |-> "none"],
                            i + 1, off, dat, o, n_features)

\* PushCSC appending other's data behind this page's data instead of merging
\* column by column
PushCSC_Concatenates(off, dat, o) ==
  IF Len(o.data) = 0
    THEN [offset |-> o.offset, data |-> dat, err |-> "none"]
  ELSE IF Len(dat) = 0
    THEN [offset |-> o.offset, data |-> o.data, err |-> "none"]
  ELSE IF Len(off) # Len(o.offset)
    THEN [offset |-> off, data |-> dat, err |-> "check"]
  ELSE [offset |-> [p \in 1..Len(off) |-> off[p] + o.offset[p]],
        data |-> dat \o o.data, err |-> "none"]

PushCSC(off, dat, o) ==
  LET merged == MergeColumns([data |-> [p \in 1..(Len(dat) + Len(o.data)) |-> DefaultEntry],
                              offset |-> [p \in 1..Len(o.offset) |-> 0],
                              beg |-> 0, ptr |-> 1, err |-> "none"],
                             0, off, dat, o, Len(o.offset) - 1)
  IN  IF Len(o.data) = 0
        THEN [offset |-> o.offset, data |-> dat, err |-> "none"]
      ELSE IF Len(dat) = 0
        THEN [offset |-> o.offset, data |-> o.data, err |-> "none"]
      ELSE IF Len(off) # Len(o.offset)
        THEN [offset |-> off, data |-> dat, err |-> "check"]
      ELSE IF merged.err # "none"
        THEN [offset |-> off, data |-> dat, err |-> "check"]
      ELSE [offset |-> merged.offset, data |-> merged.data, err |-> "none"]

----------------------------------------------------------------------------
(* SortIndices, SortRows, Reindex                                          *)

\* Entry::CmpIndex
CmpIndex(a, b) == ULt(a.index, b.index)
\* Entry::CmpValue
CmpValue(a, b) == FloatLt(a.fvalue, b.fvalue)

\* std::is_sorted of positions beg..end-1 under the index comparator (byValue
\* FALSE) or the value comparator (byValue TRUE)
IsSortedRange(dat, beg, end, byValue) ==
  \A p \in (beg + 1)..(end - 1) :
    IF byValue THEN ~CmpValue(dat[p + 1], dat[p]) ELSE ~CmpIndex(dat[p + 1], dat[p])

\* the bijections of the positions of dat that keep every row's positions in the row
RowPermutations(off, dat) ==
  {f \in [1..Len(dat) -> 1..Len(dat)] :
     /\ \A p, q \in 1..Len(dat) : p # q => f[p] # f[q]
     /\ \A p \in 1..Len(dat) :
          IF \E i \in 0..(Size(off) - 1) : off[i + 1] < p /\ p <= off[i + 2]
            THEN \E i \in 0..(Size(off) - 1) :
                   off[i + 1] < p /\ p <= off[i + 2] /\ off[i + 1] < f[p] /\ f[p] <= off[i + 2]
            ELSE f[p] = p}

\* SortOutcomes with the rows rearranged but not sorted
SortOutcomes_Unsorted(off, dat, byValue) ==
  {[p \in 1..Len(dat) |-> dat[f[p]]] : f \in RowPermutations(off, dat)}

\* what std::sort of every row slice can leave in data: any arrangement of each
\* row that is sorted under the comparator (the order of equivalent entries is
\* unspecified)
SortOutcomes(off, dat, byValue) ==
  {d \in {[p \in 1..Len(dat) |-> dat[f[p]]] : f \in RowPermutations(off, dat)} :
     \A i \in 0..(Size(off) - 1) : IsSortedRange(d, off[i + 1], off[i + 2], byValue)}

\* Reindex with the offset added to the first entry only
Reindex_FirstEntryOnly(dat, feature_offset) ==
  [p \in 1..Len(dat) |->
     IF p = 1 THEN [dat[p] EXCEPT !.index = @ + feature_offset] ELSE dat[p]]

\* h_data[i].index += feature_offset, in bst_feature_t
Reindex(dat, feature_offset) ==
  [p \in 1..Len(dat) |-> [dat[p] EXCEPT !.index = @ + feature_offset]]

----------------------------------------------------------------------------
(* SparsePage::GetTranspose(int num_columns, int32_t n_threads)            *)

\* common::ParallelFor(n, n_threads, fn) with the static schedule: the thread that
\* runs iteration i, the iterations being dealt out in contiguous blocks
ThreadOfIteration(i, n, nthr) ==
  LET q == n \div nthr
      r == n % nthr
  IN  IF i < r * (q + 1) THEN i \div (q + 1) ELSE r + ((i - r * (q + 1)) \div q)

\* TransposeKey with every entry sent to column 0
TransposeKey_Zero(e) == 0

\* the group of an entry in both passes: entry.index
TransposeKey(e) == e.index

\* TransposedEntry with the local row index in place of the absolute one
TransposedEntry_LocalRow(brid, i, fvalue) == Entry(i, fvalue)

\* Entry(static_cast<bst_uint>(this->base_rowid + i), entry.fvalue)
TransposedEntry(brid, i, fvalue) == Entry(brid + i, fvalue)

RECURSIVE TransposeCount(_, _, _, _, _, _)
\* the first ParallelFor from entry position p of row i on
TransposeCount(st, off, dat, i, p, nthr) ==
  IF i >= Size(off) THEN st
  ELSE IF p > off[i + 2] THEN TransposeCount(st, off, dat, i + 1, off[i + 2] + 1, nthr)
  ELSE LET tid == ThreadOfIteration(i, Size(off), nthr)
           key == TransposeKey(dat[p])
       IN  IF st.threw[tid] # "none" THEN TransposeCount(st, off, dat, i, p + 1, nthr)
           ELSE IF AddBudgetRejects(st.builder, key)
             THEN TransposeCount([st EXCEPT !.threw[tid] = "builder"], off, dat, i, p + 1, nthr)
           ELSE TransposeCount([st EXCEPT !.builder = AddBudget(@, key, tid)],
                               off, dat, i, p + 1, nthr)

RECURSIVE TransposePlace(_, _, _, _, _, _, _)
\* the second ParallelFor from entry position p of row i on
TransposePlace(s, off, dat, brid, i, p, nthr) ==
  IF i >= Size(off) THEN s
  ELSE IF p > off[i + 2] THEN TransposePlace(s, off, dat, brid, i + 1, off[i + 2] + 1, nthr)
  ELSE TransposePlace(BuilderPush(s, TransposeKey(dat[p]),
                                  TransposedEntry(brid, i, dat[p].fvalue),
                                  ThreadOfIteration(i, Size(off), nthr)),
                      off, dat, brid, i, p + 1, nthr)

\* GetTranspose without builder.InitBudget(num_columns, n_threads) and without
\* the final CHECK_EQ
GetTranspose_NoInitBudget(off, dat, brid, num_columns, nthr) ==
  LET st0 == [builder |-> InitBudget(0, nthr, 0),
              threw |-> [t \in 0..(nthr - 1) |-> "none"]]
      st1 == TransposeCount(st0, off, dat, 0, off[1] + 1, nthr)
      thrown == {st1.threw[t] : t \in 0..(nthr - 1)} \ {"none"}
      s0 == InitStorage(st1.builder, <<0>>, <<>>)
      s1 == TransposePlace(s0, off, dat, brid, 0, off[1] + 1, nthr)
      t_offset == IF Len(dat) = 0 THEN [k \in 1..(num_columns + 1) |-> 0] ELSE s1.rptr
  IN  IF thrown # {}
        THEN [offset |-> <<0>>, data |-> <<>>, errs |-> thrown]
      ELSE [offset |-> t_offset, data |-> s1.data, errs |-> {"none"}]

GetTranspose(off, dat, brid, num_columns, nthr) ==
  LET st0 == [builder |-> InitBudget(num_columns, nthr, 0),
              threw |-> [t \in 0..(nthr - 1) |-> "none"]]
      st1 == TransposeCount(st0, off, dat, 0, off[1] + 1, nthr)
      thrown == {st1.threw[t] : t \in 0..(nthr - 1)} \ {"none"}
      s0 == InitStorage(st1.builder, <<0>>, <<>>)
      s1 == TransposePlace(s0, off, dat, brid, 0, off[1] + 1, nthr)
      \* if (this->data.Empty()) { offset.Resize(num_columns + 1); offset.Fill(0); }
      t_offset == IF Len(dat) = 0 THEN [k \in 1..(num_columns + 1) |-> 0] ELSE s1.rptr
  IN  IF thrown # {}
        THEN [offset |-> <<0>>, data |-> <<>>, errs |-> thrown]
      ELSE IF Len(t_offset) # num_columns + 1
        THEN [offset |-> <<0>>, data |-> <<>>, errs |-> {"check"}]
      ELSE [offset |-> t_offset, data |-> s1.data, errs |-> {"none"}]

----------------------------------------------------------------------------
(* SparsePage::IsIndicesSorted(int32_t n_threads)                          *)

\* n_threads = max(min(n_threads, Size()), 1)
ClampThreads(n_threads, n) == Max(Min(n_threads, n), 1)

\* is_sorted_tloc: per thread, the number of its rows that std::is_sorted accepts
IsSortedTloc(off, dat, n_threads) ==
  [t \in 0..(n_threads - 1) |->
     Cardinality({i \in 0..(Size(off) - 1) :
                    /\ ThreadOfIteration(i, Size(off), n_threads) = t
                    /\ IsSortedRange(dat, off[i + 1], off[i + 2], FALSE)})]

\* IsIndicesSorted comparing the counter of thread 0 only with the row count
IsIndicesSorted_FirstCounterOnly(off, dat, n_threads_in) ==
  LET n_threads == ClampThreads(n_threads_in, Size(off))
      tloc == IsSortedTloc(off, dat, n_threads)
  IN  tloc[0] = Cardinality({i \in 0..(Size(off) - 1) :
                               ThreadOfIteration(i, Size(off), n_threads) = 0})

\* std::accumulate(is_sorted_tloc) == this->Size()
IsIndicesSorted(off, dat, n_threads_in) ==
  LET n_threads == ClampThreads(n_threads_in, Size(off))
      tloc == IsSortedTloc(off, dat, n_threads)
  IN  SumSeq([t \in 1..n_threads |-> tloc[t - 1]], n_threads) = Size(off)

----------------------------------------------------------------------------
(* Adapter batches.  A row-major batch holds one row per line: every tuple *)
(* of line i carries row index first + i and a free column index.  A       *)
(* column-major batch holds one column per line: every tuple of line i     *)
(* carries column index i and a free row index.                            *)

\* the free index of a tuple: its column (row-major), its row above first (column-major)
FreeIndices == 0..1
\* the row index of the first line (row-major), the lowest row index (column-major)
FirstRows == 0..3
\* the values of nthread
ThreadCounts == 1..2

\* the sequences of (free index, value) a batch is cut from
TupleSeqs == UNION {[1..m -> FreeIndices \X BatchValues] : m \in 0..MaxTuples}

\* the ways to cut m tuples into at most MaxLines lines
LineLengths(m) ==
  UNION {{l \in [1..n -> 0..m] : SumSeq(l, n) = m} : n \in 0..MaxLines}

\* the batch of Len(lens) lines cut from ts, line i holding lens[i] tuples
MakeBatch(rowMajor, first, ts, lens) ==
  [rowMajor |-> rowMajor,
   lines |-> [i \in 1..Len(lens) |->
                [j \in 1..lens[i] |->
                   LET t == ts[SumSeq(lens, i - 1) + j]
                   IN  IF rowMajor
                         THEN COOTuple(first + i - 1, t[1], t[2])
                         ELSE COOTuple(first + t[1], i - 1, t[2])]]]

Batches ==
  {MakeBatch(rm, first, ts, lens) :
     rm \in BOOLEAN, first \in FirstRows,
     <<ts, lens>> \in UNION {{<<t, l>> : l \in LineLengths(Len(t))} : t \in TupleSeqs}}

EmptyBatch == [rowMajor |-> TRUE, lines |-> <<>>]
EmptyPage == [offset |-> <<0>>, data |-> <<>>]

----------------------------------------------------------------------------
(* Push(batch) on its own: one call on a page that holds rows already or   *)
(* not, with every batch, missing sentinel and thread count of the bounds  *)

\* the page after Push of the one-line batch [(row 1, column 0, 1.0)] on the
\* empty page with base_rowid 1
OneRowPage ==
  LET r == PushAdapter(<<0>>, <<>>, 1,
                       [rowMajor |-> TRUE, lines |-> <<<<COOTuple(1, 0, 1)>>>>], NaN, 1)
  IN  [offset |-> r.offset, data |-> r.data]

\* the pages Push(batch) is called on, with their base_rowid
StartPages == {<<EmptyPage, 0>>, <<OneRowPage, 1>>}

InitPush ==
  /\ \E p \in StartPages :
       /\ offset = p[1].offset
       /\ data = p[1].data
       /\ base_rowid = p[2]
       /\ pre_base_rowid = p[2]
  /\ op = "init"
  /\ pre_offset = offset
  /\ pre_data = data
  /\ batch = EmptyBatch
  /\ missing = NaN
  /\ nthread = 1
  /\ other = EmptyPage
  /\ arg = 0
  /\ ret = 0
  /\ transpose = EmptyPage
  /\ err = "none"
  /\ run = NoRun
  /\ meta = NoMeta

\* this->Push(bt, miss, nthr)
DoPush(bt, miss, nthr) ==
  LET r == PushAdapter(offset, data, base_rowid, bt, miss, nthr)
  IN  \E e \in r.errs :
        /\ offset' = r.offset
        /\ data' = r.data
        /\ ret' = r.ret
        /\ err' = e
        /\ op' = "Push"
        /\ pre_offset' = offset
        /\ pre_data' = data
        /\ pre_base_rowid' = base_rowid
        /\ batch' = bt
        /\ missing' = miss
        /\ nthread' = nthr
        /\ other' = EmptyPage
        /\ arg' = 0
        /\ transpose' = EmptyPage
        /\ UNCHANGED <<base_rowid, run, meta>>

PushOnce ==
  /\ op = "init"
  /\ \E bt \in Batches, miss \in MissingValues, nthr \in ThreadCounts :
       DoPush(bt, miss, nthr)

NextPush == PushOnce

SpecPush == InitPush /\ [][NextPush]_vars

----------------------------------------------------------------------------
(* Sequences of operations on one page, from the empty page on             *)

\* the lines of the batches pushed in a sequence of operations, as (free index, value)
PlainLines == {<<>>, <<<<0, 1>>>>, <<<<1, 2>>, <<0, NaN>>>>}

\* the batches pushed onto a page whose next row has index first
PlainBatches(first) ==
  {[rowMajor |-> rm,
    lines |-> [i \in 1..Len(ls) |->
                 [j \in 1..Len(ls[i]) |->
                    IF rm THEN COOTuple(first + i - 1, ls[i][j][1], ls[i][j][2])
                          ELSE COOTuple(first + ls[i][j][1], i - 1, ls[i][j][2])]]] :
     rm \in BOOLEAN, ls \in UNION {[1..n -> PlainLines] : n \in 0..2}}

\* the well-formed pages passed to Push(page) and PushCSC
ArgPages ==
  {[offset |-> <<0>>, data |-> <<>>],
   [offset |-> <<0, 0>>, data |-> <<>>],
   [offset |-> <<0, 1>>, data |-> <<Entry(0, 1)>>],
   [offset |-> <<0, 0, 0>>, data |-> <<>>],
   [offset |-> <<0, 1, 1>>, data |-> <<Entry(1, 2)>>],
   [offset |-> <<0, 0, 1>>, data |-> <<Entry(0, 2)>>],
   [offset |-> <<0, 1, 2>>, data |-> <<Entry(1, 1), Entry(0, 2)>>],
   [offset |-> <<0, 2>>, data |-> <<Entry(1, 2), Entry(0, 1)>>]}

\* the values of feature_offset: 1, and 2^32 - 1 in the low 32 bits
FeatureOffsets == {1, -1}
\* the column indices a page of the model holds
PageIndices == 0..1
\* the values of num_columns
ColumnCounts == 1..2

WithinBounds(off, dat) == Len(off) <= MaxRows + 1 /\ Len(dat) <= MaxData

Init ==
  /\ offset = <<0>>
  /\ data = <<>>
  /\ base_rowid \in {0, 1}
  /\ pre_base_rowid = base_rowid
  /\ op = "init"
  /\ pre_offset = offset
  /\ pre_data = data
  /\ batch = EmptyBatch
  /\ missing = NaN
  /\ nthread = 1
  /\ other = EmptyPage
  /\ arg = 0
  /\ ret = 0
  /\ transpose = EmptyPage
  /\ err = "none"
  /\ run = NoRun
  /\ meta = NoMeta

\* a sequence of operations keeps the page and the page GetTranspose returned
\* last; what a single call started from, was given and returned is recorded by
\* the specifications of single calls
Unrecorded ==
  UNCHANGED <<op, pre_offset, pre_data, pre_base_rowid, batch, missing, nthread,
              other, arg, ret, err, run, meta>>

PushBatchOp ==
  \E bt \in PlainBatches(base_rowid + Size(offset)), nthr \in ThreadCounts :
    LET r == PushAdapter(offset, data, base_rowid, bt, NaN, nthr)
    IN  /\ WithinBounds(r.offset, r.data)
        /\ offset' = r.offset
        /\ data' = r.data
        /\ transpose' = EmptyPage
        /\ UNCHANGED base_rowid
        /\ Unrecorded

PushPageOp ==
  \E o \in ArgPages :
    LET r == PushPage(offset, data, o)
    IN  /\ WithinBounds(r.offset, r.data)
        /\ offset' = r.offset
        /\ data' = r.data
        /\ transpose' = EmptyPage
        /\ UNCHANGED base_rowid
        /\ Unrecorded

PushCSCOp ==
  \E o \in ArgPages :
    LET r == PushCSC(offset, data, o)
    IN  /\ WithinBounds(r.offset, r.data)
        /\ offset' = r.offset
        /\ data' = r.data
        /\ transpose' = EmptyPage
        /\ UNCHANGED base_rowid
        /\ Unrecorded

SortIndicesOp ==
  \E d \in SortOutcomes(offset, data, FALSE) :
    /\ data' = d
    /\ transpose' = EmptyPage
    /\ UNCHANGED <<offset, base_rowid>>
    /\ Unrecorded

SortRowsOp ==
  \E d \in SortOutcomes(offset, data, TRUE) :
    /\ data' = d
    /\ transpose' = EmptyPage
    /\ UNCHANGED <<offset, base_rowid>>
    /\ Unrecorded

ReindexOp ==
  \E fo \in FeatureOffsets :
    LET d == Reindex(data, fo)
    IN  /\ \A p \in DOMAIN d : d[p].index \in PageIndices
        /\ data' = d
        /\ transpose' = EmptyPage
        /\ UNCHANGED <<offset, base_rowid>>
        /\ Unrecorded

GetTransposeOp ==
  \E nc \in ColumnCounts, nthr \in ThreadCounts :
    LET r == GetTranspose(offset, data, base_rowid, nc, nthr)
    IN  /\ transpose' = [offset |-> r.offset, data |-> r.data]
        /\ UNCHANGED <<offset, data, base_rowid>>
        /\ Unrecorded

Next ==
  \/ PushBatchOp
  \/ PushPageOp
  \/ PushCSCOp
  \/ SortIndicesOp
  \/ SortRowsOp
  \/ ReindexOp
  \/ GetTransposeOp

Spec == Init /\ [][Next]_vars

----------------------------------------------------------------------------
(* What a recorded Push(batch) call is judged against.  These definitions  *)
(* restate the claims' words; none of them uses the operators of Push.     *)

\* every tuple of a batch, line after line
AllTuples(bt) == SliceTuples(bt.lines, 0, Len(bt.lines))

\* the last operation was Push(batch) / was a Push(batch) that returned
Pushed == op = "Push"
PushReturned == Pushed /\ err = "none"

\* rows of the page before the last operation
PreRows == Len(pre_offset) - 1
\* rows of the page now
Rows == Len(offset) - 1

\* "not NaN and not equal to missing"
KeptByFilter(v, miss) == v # NaN /\ v # miss
Infinite(v) == v \in {PInf, NInf}
Finite(v) == v \notin {PInf, NInf, NaN}

\* how often x occurs in the sequence s
Count(s, x) == Cardinality({i \in DOMAIN s : s[i] = x})

\* the entries the filter keeps of the tuples whose row is local row k
KeptOfRow(bt, miss, brid, k) ==
  LET ts == AllTuples(bt)
      idx == {i \in DOMAIN ts : ts[i].row_idx - brid = k /\ KeptByFilter(ts[i].value, miss)}
  IN  [e \in {Entry(ts[i].column_idx, ts[i].value) : i \in idx} |->
         Cardinality({i \in idx : Entry(ts[i].column_idx, ts[i].value) = e})]

\* the entries of local row k of the page, counted
EntriesOfRow(off, dat, k) ==
  LET row == RowSlice(off, dat, k)
  IN  [e \in {row[i] : i \in DOMAIN row} |-> Count(row, e)]

\* C3: after a Push(batch) that returned, every appended row holds exactly the
\* entries (column_idx, value) of the tuples of that row that are neither NaN nor
\* equal to missing, each as often as the batch holds it, and every such tuple
\* has a row among the appended ones
C3_PushStoresExactlyValidTuples ==
  PushReturned =>
    /\ \A k \in PreRows..(Rows - 1) :
         EntriesOfRow(offset, data, k) = KeptOfRow(batch, missing, base_rowid, k)
    /\ \A i \in DOMAIN AllTuples(batch) :
         KeptByFilter(AllTuples(batch)[i].value, missing) =>
           AllTuples(batch)[i].row_idx - base_rowid \in PreRows..(Rows - 1)

\* a Push returned whose batch holds a kept tuple, a NaN and a tuple equal to missing...
C3_Witness ==
  /\ PushReturned
  /\ Rows > PreRows
  /\ Len(data) > Len(pre_data)
  /\ \E i \in DOMAIN AllTuples(batch) : ~KeptByFilter(AllTuples(batch)[i].value, missing)

\* C4: Push of a batch with zero lines returns 0 and leaves offset, data and
\* base_rowid as they were
C4_EmptyBatchIsNoOp ==
  (Pushed /\ Len(batch.lines) = 0) =>
    /\ err = "none"
    /\ ret = 0
    /\ offset = pre_offset
    /\ data = pre_data
    /\ base_rowid = pre_base_rowid

\* an empty batch was pushed onto a page that holds a row
C4_Witness == Pushed /\ Len(batch.lines) = 0 /\ PreRows > 0 /\ nthread > 1

\* C5: a Push(batch) that returned kept the r + 1 offsets and the offset[r] entries
\* the page held, and every entry it stored is in a row with local index >= r
C5_PushOnlyAppends ==
  PushReturned =>
    /\ Len(offset) >= Len(pre_offset)
    /\ SubSeq(offset, 1, PreRows + 1) = pre_offset
    /\ Len(data) >= pre_offset[PreRows + 1]
    /\ SubSeq(data, 1, pre_offset[PreRows + 1]) = SubSeq(pre_data, 1, pre_offset[PreRows + 1])
    /\ \A i \in DOMAIN AllTuples(batch) :
         KeptByFilter(AllTuples(batch)[i].value, missing) =>
           AllTuples(batch)[i].row_idx - base_rowid >= PreRows

\* a Push returned that stored entries behind the rows of a page that held some
C5_Witness == PushReturned /\ PreRows > 0 /\ Len(data) > Len(pre_data)

\* some tuple of the batch is infinite
HasInfinite(bt) == \E i \in DOMAIN AllTuples(bt) : Infinite(AllTuples(bt)[i].value)

\* every tuple of the batch has a row at or behind the rows of the page
RowsInOrder(bt, brid, r) == \A i \in DOMAIN AllTuples(bt) : AllTuples(bt)[i].row_idx >= brid + r

\* C6 as claimed, for the batches whose row indices are all at or behind the rows
\* of the page: Push of a non-empty batch raises the data admissibility error
\* exactly when missing is finite and some tuple is infinite
C6_Original ==
  (Pushed /\ Len(batch.lines) > 0 /\ RowsInOrder(batch, base_rowid, PreRows)) =>
    (err = "inf" <=> (Finite(missing) /\ HasInfinite(batch)))

\* C6 as amended: Push of a non-empty batch raises the data admissibility error
\* only when missing is not infinite (it is finite or NaN) and some tuple is
\* infinite, and then it does whenever every tuple's row index is at or behind
\* the rows of the page; with missing +Inf or -Inf it never raises it
C6_InfErrorIffMissingNotInf ==
  (Pushed /\ Len(batch.lines) > 0) =>
    /\ err = "inf" => (~Infinite(missing) /\ HasInfinite(batch))
    /\ (~Infinite(missing) /\ HasInfinite(batch) /\ RowsInOrder(batch, base_rowid, PreRows))
         => err = "inf"

\* the error was raised for the missing sentinel NaN
C6_Witness == Pushed /\ err = "inf" /\ missing = NaN /\ PreRows > 0

\* C7 as claimed: after a Push(batch) that returned no entry of the page is infinite
C7_NoInfiniteEntryStored ==
  PushReturned => \A i \in DOMAIN data : ~Infinite(data[i].fvalue)

\* C8: a Push(batch) that failed left offset, data and base_rowid as they were
C8_FailedPushLeavesPage ==
  (Pushed /\ err # "none") =>
    /\ offset = pre_offset
    /\ data = pre_data
    /\ base_rowid = pre_base_rowid

\* the data admissibility error ended a Push whose batch also holds a tuple the
\* filter keeps, in a row of its own
C8_Witness ==
  /\ Pushed
  /\ err = "inf"
  /\ \E i \in DOMAIN AllTuples(batch) :
       /\ KeptByFilter(AllTuples(batch)[i].value, missing)
       /\ ~Infinite(AllTuples(batch)[i].value)

\* C9 as claimed: Push(batch) fails whenever some tuple has a row index below
\* base_rowid + the rows of the page
C9_RowBelowBaseFails ==
  (Pushed /\ ~RowsInOrder(batch, base_rowid, PreRows)) => err # "none"

RECURSIVE MaxColumnPlusOne(_, _)
\* the largest column_idx + 1 among the first n tuples of ts, 0 for none
MaxColumnPlusOne(ts, n) ==
  IF n = 0 THEN 0
  ELSE LET m == MaxColumnPlusOne(ts, n - 1)
       IN  IF ts[n].column_idx + 1 > m THEN ts[n].column_idx + 1 ELSE m

\* C10: a Push(batch) that returned, returned the largest column_idx + 1 over all
\* tuples of the batch, kept or not, and 0 for a batch without tuples
C10_ReturnsMaxColumnPlusOne ==
  PushReturned => ret = MaxColumnPlusOne(AllTuples(batch), Len(AllTuples(batch)))

\* a Push returned whose largest column index is carried only by a tuple the filter drops
C10_Witness ==
  /\ PushReturned
  /\ ret = 2
  /\ \A i \in DOMAIN AllTuples(batch) :
       AllTuples(batch)[i].column_idx = 1 => ~KeptByFilter(AllTuples(batch)[i].value, missing)
  /\ \E i \in DOMAIN AllTuples(batch) : KeptByFilter(AllTuples(batch)[i].value, missing)

----------------------------------------------------------------------------
(* Shape of the page across sequences of operations                        *)

\* C1 as claimed: after every sequence of mutating operations from the empty
\* page on, data.size() == offset.back()
C1_DataSizeIsLastOffset == Len(data) = Last(offset)

\* offset[0] == 0 and offset[i] <= offset[i + 1] for every i
Monotone(off) ==
  /\ Len(off) >= 1
  /\ off[1] = 0
  /\ \A i \in 1..(Len(off) - 1) : off[i] <= off[i + 1]

\* C2: after every sequence of mutating operations from the empty page on, and
\* for every page GetTranspose returns, offset[0] == 0 and offset never decreases
C2_OffsetsStartAtZeroAndNeverDecrease ==
  /\ Monotone(offset)
  /\ Monotone(transpose.offset)

\* GetTranspose has returned a page with entries in two columns, of a page whose
\* two rows hold entries
C2_Witness ==
  /\ Len(offset) = 3
  /\ offset[2] > 0
  /\ offset[3] > offset[2]
  /\ Len(transpose.offset) = 3
  /\ transpose.offset[2] > 0
  /\ transpose.offset[3] > transpose.offset[2]

----------------------------------------------------------------------------
(* Single calls of Push(page), PushCSC, GetTranspose, SortIndices and       *)
(* IsIndicesSorted on a well-formed page, with the page before the call,    *)
(* the arguments and the outcome recorded                                   *)

\* the entries the pages of single calls hold
PageEntries == {Entry(0, 1), Entry(1, 1), Entry(1, 2)}

\* the offset vectors of well-formed pages: offset[0] = 0, never decreasing
PageOffsets ==
  {off \in UNION {[1..n -> 0..MaxData] : n \in 1..(MaxRows + 1)} :
     /\ off[1] = 0
     /\ \A i \in 1..(Len(off) - 1) : off[i] <= off[i + 1]}

\* the well-formed pages: data.size() == offset.back()
Pages ==
  UNION {{[offset |-> off, data |-> d] : d \in [1..Last(off) -> PageEntries]} :
           off \in PageOffsets}

InitPage ==
  /\ \E pg \in Pages :
       /\ offset = pg.offset
       /\ data = pg.data
  /\ base_rowid \in {0, 1}
  /\ pre_base_rowid = base_rowid
  /\ op = "init"
  /\ pre_offset = offset
  /\ pre_data = data
  /\ batch = EmptyBatch
  /\ missing = NaN
  /\ nthread = 1
  /\ other = EmptyPage
  /\ arg = 0
  /\ ret = 0
  /\ transpose = EmptyPage
  /\ err = "none"
  /\ run = NoRun
  /\ meta = NoMeta

\* what every single call records of the state it started from
RecordPre ==
  /\ pre_offset' = offset
  /\ pre_data' = data
  /\ pre_base_rowid' = base_rowid
  /\ UNCHANGED <<base_rowid, batch, missing, run, meta>>

\* this->Push(o)
PushPageCall ==
  /\ op = "init"
  /\ \E o \in Pages :
       LET r == PushPage(offset, data, o)
       IN  /\ offset' = r.offset
           /\ data' = r.data
           /\ other' = o
           /\ op' = "PushPage"
           /\ err' = "none"
           /\ UNCHANGED <<nthread, arg, ret, transpose>>
           /\ RecordPre

\* this->PushCSC(o)
PushCSCCall ==
  /\ op = "init"
  /\ \E o \in Pages :
       LET r == PushCSC(offset, data, o)
       IN  /\ offset' = r.offset
           /\ data' = r.data
           /\ other' = o
           /\ op' = "PushCSC"
           /\ err' = r.err
           /\ UNCHANGED <<nthread, arg, ret, transpose>>
           /\ RecordPre

\* transpose = this->GetTranspose(nc, nthr)
GetTransposeCall ==
  /\ op = "init"
  /\ \E nc \in ColumnCounts, nthr \in ThreadCounts :
       LET r == GetTranspose(offset, data, base_rowid, nc, nthr)
       IN  \E e \in r.errs :
             /\ transpose' = [offset |-> r.offset, data |-> r.data]
             /\ arg' = nc
             /\ nthread' = nthr
             /\ op' = "GetTranspose"
             /\ err' = e
             /\ UNCHANGED <<offset, data, other, ret>>
             /\ RecordPre

\* transpose = transpose.GetTranspose(this->Size(), nthr), the page returned by
\* GetTranspose having base_rowid 0
TransposeBackCall ==
  /\ op = "GetTranspose"
  /\ err = "none"
  /\ \E nthr \in ThreadCounts :
       LET r == GetTranspose(transpose.offset, transpose.data, 0, Size(offset), nthr)
       IN  \E e \in r.errs :
             /\ transpose' = [offset |-> r.offset, data |-> r.data]
             /\ nthread' = nthr
             /\ op' = "TransposeBack"
             /\ err' = e
             /\ UNCHANGED <<offset, data, other, arg, ret>>
             /\ RecordPre

\* this->SortIndices(nthr), on a fresh page or on one SortIndices has sorted
SortIndicesCall ==
  /\ op \in {"init", "SortIndices"}
  /\ \E nthr \in ThreadCounts, d \in SortOutcomes(offset, data, FALSE) :
       /\ data' = d
       /\ nthread' = nthr
       /\ op' = "SortIndices"
       /\ err' = "none"
       /\ UNCHANGED <<offset, other, arg, ret, transpose>>
       /\ RecordPre

\* this->Reindex(fo, nthr) on a fresh page
ReindexCall ==
  /\ op = "init"
  /\ \E fo \in FeatureOffsets, nthr \in ThreadCounts :
       /\ data' = Reindex(data, fo)
       /\ arg' = fo
       /\ nthread' = nthr
       /\ op' = "Reindex"
       /\ err' = "none"
       /\ UNCHANGED <<offset, other, ret, transpose>>
       /\ RecordPre

\* this->Reindex(fo, nthr) on the page a Reindex has left: other keeps the page
\* before both calls, arg the sum of the two offsets and ret the second
ReindexAgainCall ==
  /\ op = "Reindex"
  /\ \E fo \in FeatureOffsets, nthr \in ThreadCounts :
       /\ data' = Reindex(data, fo)
       /\ arg' = arg + fo
       /\ ret' = fo
       /\ other' = [offset |-> pre_offset, data |-> pre_data]
       /\ nthread' = nthr
       /\ op' = "ReindexAgain"
       /\ err' = "none"
       /\ UNCHANGED <<offset, transpose>>
       /\ RecordPre

\* ret = this->IsIndicesSorted(nthr)
IsIndicesSortedCall ==
  /\ op = "init"
  /\ \E nthr \in ThreadCounts :
       /\ ret' = IsIndicesSorted(offset, data, nthr)
       /\ nthread' = nthr
       /\ op' = "IsIndicesSorted"
       /\ err' = "none"
       /\ UNCHANGED <<offset, data, other, arg, transpose>>
       /\ RecordPre

NextPage ==
  \/ PushPageCall
  \/ PushCSCCall
  \/ GetTransposeCall
  \/ TransposeBackCall
  \/ SortIndicesCall
  \/ IsIndicesSortedCall
  \/ ReindexCall
  \/ ReindexAgainCall

SpecPage == InitPage /\ [][NextPage]_vars

----------------------------------------------------------------------------
(* What a recorded single call is judged against.  These definitions        *)
(* restate the claims' words; none of them uses the operators of the calls. *)

\* the local row (0-based) that holds position p (1-based) of data
RowOf(off, p) == CHOOSE i \in 0..(Len(off) - 2) : off[i + 1] < p /\ p <= off[i + 2]

\* the (row, column, value) triples of a row-major page whose first row is rowbase
Triples(off, dat, rowbase) ==
  [p \in 1..Len(dat) |-> <<rowbase + RowOf(off, p), dat[p].index, dat[p].fvalue>>]

\* the (row, column, value) triples of a column-major page: the group is the
\* column, the stored index the row
ColumnTriples(off, dat) ==
  [p \in 1..Len(dat) |-> <<dat[p].index, RowOf(off, p), dat[p].fvalue>>]

\* two sequences hold the same elements, each equally often
SameBag(s, t) ==
  /\ Len(s) = Len(t)
  /\ \A x \in {s[i] : i \in DOMAIN s} \cup {t[i] : i \in DOMAIN t} : Count(s, x) = Count(t, x)

\* every row slice is in ascending (non-decreasing) column-index order
RowsAscending(off, dat) ==
  \A i \in 0..(Len(off) - 2) :
    \A p \in (off[i + 1] + 1)..(off[i + 2] - 1) : dat[p].index <= dat[p + 1].index

\* C11: after Push(other), data is the old data followed by other.data, offset
\* is the old offset followed by old offset.back() + other.offset[i] for
\* i = 1..numRows(other), the row count has grown by numRows(other), and a page
\* with zero rows changes nothing
C11_PushPageConcatenates ==
  op = "PushPage" =>
    /\ data = pre_data \o other.data
    /\ offset = pre_offset \o [i \in 1..(Len(other.offset) - 1) |->
                                 Last(pre_offset) + other.offset[i + 1]]
    /\ Rows = PreRows + (Len(other.offset) - 1)
    /\ (Len(other.offset) = 1 => (offset = pre_offset /\ data = pre_data))

\* a page with rows and entries was pushed onto a page with rows and entries
C11_Witness ==
  /\ op = "PushPage"
  /\ PreRows >= 1
  /\ Len(pre_data) >= 1
  /\ Len(other.offset) = 3
  /\ other.offset[2] = 1
  /\ Len(other.data) = 2

\* C12: PushCSC(other) with other.data empty leaves data unchanged and, when
\* this page holds entries, leaves offset unchanged, whatever other.offset is
C12_PushCSCOfEmptyIsNoOp ==
  (op = "PushCSC" /\ Len(other.data) = 0) =>
    /\ data = pre_data
    /\ (Len(pre_data) > 0 => offset = pre_offset)

\* C13: PushCSC(other) with other.data not empty: when this page holds entries
\* and both offset vectors have the same length, every merged column is this
\* page's old column followed by other's column, offset keeps its length and
\* data has the size of both; when this page holds no entries the result is other
C13_PushCSCMergesColumns ==
  (op = "PushCSC" /\ Len(other.data) > 0) =>
    /\ (Len(pre_data) > 0 /\ Len(pre_offset) = Len(other.offset)) =>
         /\ err = "none"
         /\ Len(offset) = Len(pre_offset)
         /\ Len(data) = Len(pre_data) + Len(other.data)
         /\ offset[1] = 0
         /\ \A i \in 0..(Len(offset) - 2) :
              RowSlice(offset, data, i) =
                RowSlice(pre_offset, pre_data, i) \o RowSlice(other.offset, other.data, i)
    /\ Len(pre_data) = 0 => (data = other.data /\ offset = other.offset)

\* two pages of two columns were merged, this page holding an entry in its second
\* column and other an entry in its first
C13_Witness ==
  /\ op = "PushCSC"
  /\ err = "none"
  /\ Len(pre_offset) = 3
  /\ Len(other.offset) = 3
  /\ pre_offset[2] = 0
  /\ pre_offset[3] = 1
  /\ other.offset[2] = 1
  /\ other.offset[3] = 1
  /\ data = other.data \o pre_data

\* C14: PushCSC(other) with offset vectors of different lengths fails and
\* leaves offset and data unchanged, in every branch
C14_PushCSCShapeMismatchFails ==
  (op = "PushCSC" /\ Len(pre_offset) # Len(other.offset)) =>
    /\ err # "none"
    /\ offset = pre_offset
    /\ data = pre_data

\* C15: the page GetTranspose returns holds, for every entry (c, v) of local row
\* i of the source, the entry (base_rowid + i, v) in its row c, exactly as often,
\* and nothing else; the source page is not modified
C15_TransposeContent ==
  (op = "GetTranspose" /\ err = "none") =>
    /\ SameBag(Triples(offset, data, base_rowid),
               ColumnTriples(transpose.offset, transpose.data))
    /\ offset = pre_offset
    /\ data = pre_data
    /\ base_rowid = pre_base_rowid

\* a page with base_rowid 1 and entries in both of its rows was transposed
C15_Witness ==
  /\ op = "GetTranspose"
  /\ err = "none"
  /\ base_rowid = 1
  /\ Len(offset) = 3
  /\ offset[2] = 1
  /\ offset[3] = 2
  /\ Len(transpose.data) = 2

\* C16: when every column index of the source is below num_columns, GetTranspose
\* returns a page of exactly num_columns + 1 offsets; when the source holds no
\* entries they are all 0 and data is empty
C16_TransposeShape ==
  (op = "GetTranspose" /\ \A p \in DOMAIN data : data[p].index < arg) =>
    /\ err = "none"
    /\ Len(transpose.offset) = arg + 1
    /\ Len(data) = 0 =>
         /\ \A k \in DOMAIN transpose.offset : transpose.offset[k] = 0
         /\ transpose.data = <<>>

\* a page whose entries all lie in column 0 was transposed with num_columns 2
C16_Witness ==
  /\ op = "GetTranspose"
  /\ arg = 2
  /\ Len(data) > 0
  /\ \A p \in DOMAIN data : data[p].index = 0
  /\ Len(transpose.offset) = 3

\* C17 as stated: for every base_rowid the transpose of the transpose, taken
\* with num_columns = numRows(P), succeeds and holds P's triples
C17_Original ==
  op = "TransposeBack" =>
    /\ err = "none"
    /\ SameBag(Triples(offset, data, base_rowid),
               Triples(transpose.offset, transpose.data, 0))

\* C17: the transpose of the transpose holds P's triples, rows counted from
\* base_rowid, whenever it succeeds, and it succeeds when base_rowid is 0
C17_TransposeRoundTrip ==
  op = "TransposeBack" =>
    /\ base_rowid = 0 => err = "none"
    /\ err = "none" =>
         SameBag(Triples(offset, data, base_rowid),
                 Triples(transpose.offset, transpose.data, 0))

\* a page with base_rowid 0 and entries in both of its rows and both columns was
\* transposed and transposed back
C17_Witness ==
  /\ op = "TransposeBack"
  /\ err = "none"
  /\ base_rowid = 0
  /\ Len(offset) = 3
  /\ offset[2] = 1
  /\ offset[3] = 2
  /\ data[1].index # data[2].index
  /\ Len(transpose.data) = 2

\* C18: after SortIndices, IsIndicesSorted returns true for every thread count,
\* every row holds the entries it held, offset is unchanged, and on a page that
\* was sorted already the column indices stay where they were
C18_SortIndicesSorts ==
  op = "SortIndices" =>
    /\ \A nthr \in ThreadCounts : IsIndicesSorted(offset, data, nthr)
    /\ offset = pre_offset
    /\ \A k \in 0..(Rows - 1) :
         EntriesOfRow(offset, data, k) = EntriesOfRow(pre_offset, pre_data, k)
    /\ RowsAscending(pre_offset, pre_data) =>
         \A p \in DOMAIN data : data[p].index = pre_data[p].index

\* SortIndices has rearranged a row that was not in ascending order
C18_Witness ==
  /\ op = "SortIndices"
  /\ ~RowsAscending(pre_offset, pre_data)
  /\ data # pre_data

\* C19: IsIndicesSorted(nthread) returns true exactly when every row slice is in
\* ascending column-index order, for every nthread, and leaves the page alone
C19_IsIndicesSortedIffAscending ==
  op = "IsIndicesSorted" =>
    /\ ret = RowsAscending(offset, data)
    /\ offset = pre_offset
    /\ data = pre_data

\* two threads looked at two rows, the second of which is not ascending, and the
\* call returned false
C19_Witness ==
  /\ op = "IsIndicesSorted"
  /\ nthread = 2
  /\ Len(offset) = 3
  /\ offset[2] = 0
  /\ ~RowsAscending(offset, data)
  /\ ret = FALSE

----------------------------------------------------------------------------
(* Push(batch) and GetTranspose statement by statement: the calling thread  *)
(* runs the statements outside the two parallel regions, and inside a       *)
(* region the worker threads take their inner-loop iterations in any order. *)
(* A worker writes its own budgets, its own maximum and its own cursors;    *)
(* valid is atomic.                                                         *)

\* the values of the tuples of these batches
ThreadValues == {1, PInf}
\* the missing sentinels of these calls
ThreadMissing == {1, NaN, PInf}
\* where the first row of the batch lies, counted from the row behind the page's last
RowShifts == {0, -1}

\* the batches whose first row is first
ThreadBatches(first) ==
  {MakeBatch(rm, first, ts, lens) :
     rm \in BOOLEAN,
     <<ts, lens>> \in UNION {{<<t, l>> : l \in LineLengths(Len(t))} :
                               t \in UNION {[1..m -> FreeIndices \X ThreadValues] :
                                              m \in 0..MaxTuples}}}

\* the builder before InitStorage()
NoStorage == [rptr |-> <<>>, data |-> <<>>, base |-> 0, cursor |-> <<>>]

\* the call in progress: the statement the calling thread is at (phase), the
\* effective nthread, builder_base_row_offset, the state shared by the first
\* pass (builder, valid, max_columns_vector, the exception exec caught per
\* thread), per thread the items of its slice done in either pass, the builder
\* after InitStorage, and max_columns.  What the builder was asked is written
\* down beside it: per thread the groups of its AddBudget calls (added) and
\* the group, position and entry of its Push calls (wrote), the builder's calls in
\* their order (log), and per thread the lines it went through in either pass
RunState(phase, nthr, base, st, pos1, pos2, storage, max_columns) ==
  [phase |-> phase, nthr |-> nthr, base |-> base, st |-> st, pos1 |-> pos1,
   pos2 |-> pos2, storage |-> storage, max_columns |-> max_columns,
   added |-> [t \in 0..(nthr - 1) |-> <<>>],
   wrote |-> [t \in 0..(nthr - 1) |-> <<>>],
   log |-> <<>>,
   lines1 |-> [t \in 0..(nthr - 1) |-> {}],
   lines2 |-> [t \in 0..(nthr - 1) |-> {}]]

InitRun ==
  /\ \E pg \in Pages :
       /\ offset = pg.offset
       /\ data = pg.data
  /\ base_rowid \in {0, 1}
  /\ pre_base_rowid = base_rowid
  /\ op = "init"
  /\ pre_offset = offset
  /\ pre_data = data
  /\ batch = EmptyBatch
  /\ missing = NaN
  /\ nthread = 1
  /\ other = EmptyPage
  /\ arg = 0
  /\ ret = 0
  /\ transpose = EmptyPage
  /\ err = "none"
  /\ run = NoRun
  /\ meta = NoMeta

\* what the steps of a call in progress leave alone
CallRecord ==
  UNCHANGED <<base_rowid, op, pre_offset, pre_data, pre_base_rowid, batch, missing,
              nthread, other, arg, meta>>

\* ThreadRuns with a worker that stops once valid is false
ThreadRuns_StopsWhenInvalid(st, tid) == st.threw[tid] = "none" /\ st.valid

\* the lambda of worker tid in exec.Run has not ended with an exception
ThreadRuns(st, tid) == st.threw[tid] = "none"

RECURSIVE SliceLines(_, _, _)
\* for every tuple of lines begin..end-1, in the order the loops visit them, the
\* index i of its line
SliceLines(lines, begin, end) ==
  IF begin >= end THEN <<>>
  ELSE [j \in 1..Len(lines[begin + 1]) |-> begin] \o SliceLines(lines, begin + 1, end)

\* the line index of every tuple worker tid visits
ThreadLines(bt, tid, nthr) ==
  LET n == BatchSize(bt)
      ts == ThreadSize(n, nthr)
  IN  SliceLines(bt.lines, SliceBegin(tid, ts), SliceEnd(tid, nthr, ts, n))

\* worker tid has gone through all tuples of its slice (pos counts those done)
SliceDone(bt, tid, nthr, pos) == pos[tid] >= Len(ThreadTuples(bt, tid, nthr))

\* the cursor a builder Push has advanced from c0 to c1: its thread and group
AdvancedCursor(c0, c1) ==
  CHOOSE uk \in UNION {{<<u, k>> : k \in DOMAIN c0[u]} : u \in DOMAIN c0} :
    c0[uk[1]][uk[2]] # c1[uk[1]][uk[2]]

\* PlaceThread with every worker pushing as thread 0
PlaceThread_Zero(tid, nthr) == 0

\* int tid = omp_get_thread_num(), the thread id handed to builder.Push
PlaceThread(tid, nthr) == tid

\* the call up to the first parallel region: the early return for an empty
\* batch, builder.InitBudget, max_columns_vector, exec and valid
EnterPush ==
  /\ run.phase = "idle"
  /\ <<[offset |-> offset, data |-> data], base_rowid>> \in StartPages
  /\ \E d \in RowShifts, miss \in ThreadMissing, nthr_in \in ThreadCounts :
       \E bt \in ThreadBatches(base_rowid + Size(offset) + d) :
         LET nthr == EffectiveThreads(bt, nthr_in)
             base == BuilderBase(offset)
             expected_rows == ExpectedRows(bt, base_rowid)
             zeros == [t \in 0..(nthr - 1) |-> 0]
             st0 == [builder |-> InitBudget(expected_rows, nthr, base),
                     valid |-> TRUE,
                     max_columns |-> zeros,
                     threw |-> [t \in 0..(nthr - 1) |-> "none"]]
             started(phase) == RunState(phase, nthr, base, st0, zeros, zeros, NoStorage, 0)
         IN  /\ batch' = bt
             /\ missing' = miss
             /\ nthread' = nthr_in
             /\ op' = "PushRun"
             /\ pre_offset' = offset
             /\ pre_data' = data
             /\ pre_base_rowid' = base_rowid
             /\ ret' = 0
             /\ IF BatchSize(bt) = 0
                  THEN run' = started("done") /\ err' = "none"
                ELSE IF InitBudgetFails(expected_rows)
                  THEN run' = [started("failed") EXCEPT !.log = <<"InitBudget">>]
                       /\ err' = "builder"
                ELSE run' = [started("pass1") EXCEPT !.log = <<"InitBudget">>]
                     /\ err' = "none"
             /\ UNCHANGED <<offset, data, base_rowid, other, arg, transpose, meta>>

\* one iteration of the inner loop of the first parallel region by some worker
Pass1ThreadStep ==
  /\ run.phase = "pass1"
  /\ \E t \in 0..(run.nthr - 1) :
       /\ ThreadRuns(run.st, t)
       /\ ~SliceDone(batch, t, run.nthr, run.pos1)
       /\ LET e == ThreadTuples(batch, t, run.nthr)[run.pos1[t] + 1]
              st1 == Pass1Step(run.st, t, e, missing, base_rowid, run.base)
              budgeted == st1.builder # run.st.builder
          IN  run' = [run EXCEPT
                        !.st = st1,
                        !.pos1[t] = @ + 1,
                        !.added[t] = IF budgeted THEN Append(@, KeyOf(e.row_idx, base_rowid))
                                                 ELSE @,
                        !.log = IF budgeted THEN Append(@, "AddBudget") ELSE @,
                        !.lines1[t] = @ \cup {ThreadLines(batch, t, run.nthr)[run.pos1[t] + 1]}]
  /\ UNCHANGED <<offset, data, ret, err, transpose>>
  /\ CallRecord

\* the end of the first parallel region and exec.Rethrow()
Rethrow ==
  /\ run.phase = "pass1"
  /\ \A t \in 0..(run.nthr - 1) :
       ~ThreadRuns(run.st, t) \/ SliceDone(batch, t, run.nthr, run.pos1)
  /\ LET thrown == {run.st.threw[t] : t \in 0..(run.nthr - 1)} \ {"none"}
     IN  IF thrown # {}
           THEN /\ run' = [run EXCEPT !.phase = "failed"]
                /\ err' \in thrown
           ELSE /\ run' = [run EXCEPT !.phase = "CheckValid"]
                /\ err' = err
  /\ UNCHANGED <<offset, data, ret, transpose>>
  /\ CallRecord

\* CHECK(valid) << error::InfInData()
CheckValid ==
  /\ run.phase = "CheckValid"
  /\ IF run.st.valid
       THEN run' = [run EXCEPT !.phase = "Reduce"] /\ err' = err
       ELSE run' = [run EXCEPT !.phase = "failed"] /\ err' = "inf"
  /\ UNCHANGED <<offset, data, ret, transpose>>
  /\ CallRecord

\* max_columns = max over max_columns_vector
ReduceMaxColumns ==
  /\ run.phase = "Reduce"
  /\ run' = [run EXCEPT !.phase = "InitStorage",
                        !.max_columns = MaxOver(run.st.max_columns, run.nthr)]
  /\ UNCHANGED <<offset, data, ret, err, transpose>>
  /\ CallRecord

\* InitStorageStep with the statement reached again
InitStorageStep_Repeats ==
  /\ run.phase = "InitStorage"
  /\ Len(run.log) < 8
  /\ LET s0 == InitStorage(run.st.builder, offset, data)
     IN  /\ run' = [run EXCEPT !.storage = s0, !.log = Append(@, "InitStorage")]
         /\ offset' = s0.rptr
         /\ data' = s0.data
  /\ UNCHANGED <<ret, err, transpose>>
  /\ CallRecord

\* builder.InitStorage(), on the page's offset and data
InitStorageStep ==
  /\ run.phase = "InitStorage"
  /\ LET s0 == InitStorage(run.st.builder, offset, data)
     IN  /\ run' = [run EXCEPT !.phase = "pass2", !.storage = s0,
                               !.log = Append(@, "InitStorage")]
         /\ offset' = s0.rptr
         /\ data' = s0.data
  /\ UNCHANGED <<ret, err, transpose>>
  /\ CallRecord

\* one iteration of the inner loop of the second parallel region by some worker
Pass2ThreadStep ==
  /\ run.phase = "pass2"
  /\ \E t \in 0..(run.nthr - 1) :
       /\ ~SliceDone(batch, t, run.nthr, run.pos2)
       /\ LET s1 == Pass2Step(run.storage, t,
                              ThreadTuples(batch, t, run.nthr)[run.pos2[t] + 1],
                              missing, base_rowid)
              pushed == s1.cursor # run.storage.cursor
              uk == AdvancedCursor(run.storage.cursor, s1.cursor)
              rp == run.storage.cursor[uk[1]][uk[2]]
          IN  /\ run' = [run EXCEPT
                           !.storage = s1,
                           !.pos2[t] = @ + 1,
                           !.wrote[t] = IF pushed
                                          THEN Append(@, <<uk[2] - 1 + run.base, rp,
                                                           s1.data[rp + 1]>>)
                                          ELSE @,
                           !.log = IF pushed THEN Append(@, "Push") ELSE @,
                           !.lines2[t] =
                             @ \cup {ThreadLines(batch, t, run.nthr)[run.pos2[t] + 1]}]
              /\ data' = s1.data
  /\ UNCHANGED <<offset, ret, err, transpose>>
  /\ CallRecord

\* the end of the second parallel region, exec.Rethrow() and return max_columns
ReturnPush ==
  /\ run.phase = "pass2"
  /\ \A t \in 0..(run.nthr - 1) : SliceDone(batch, t, run.nthr, run.pos2)
  /\ run' = [run EXCEPT !.phase = "done"]
  /\ ret' = run.max_columns
  /\ UNCHANGED <<offset, data, err, transpose>>
  /\ CallRecord

RECURSIVE RowsEntries(_, _, _, _)
\* the entries worker tid visits in either ParallelFor of GetTranspose, as (row
\* i, position in data): the rows of the worker in ascending order, from row i on
RowsEntries(off, i, tid, nthr) ==
  IF i >= Size(off) THEN <<>>
  ELSE (IF ThreadOfIteration(i, Size(off), nthr) = tid
          THEN [j \in 1..(off[i + 2] - off[i + 1]) |-> <<i, off[i + 1] + j>>]
          ELSE <<>>)
       \o RowsEntries(off, i + 1, tid, nthr)

ThreadEntries(off, tid, nthr) == RowsEntries(off, 0, tid, nthr)

\* worker tid has gone through all entries of its rows
RowsDone(off, tid, nthr, pos) == pos[tid] >= Len(ThreadEntries(off, tid, nthr))

\* GetTranspose up to the first ParallelFor: transpose, builder, InitBudget
EnterTranspose ==
  /\ run.phase = "idle"
  /\ \E nc \in ColumnCounts, nthr \in ThreadCounts :
       LET zeros == [t \in 0..(nthr - 1) |-> 0]
           st0 == [builder |-> InitBudget(nc, nthr, 0),
                   valid |-> TRUE,
                   max_columns |-> zeros,
                   threw |-> [t \in 0..(nthr - 1) |-> "none"]]
       IN  /\ arg' = nc
           /\ nthread' = nthr
           /\ run' = [RunState("count", nthr, 0, st0, zeros, zeros, NoStorage, 0)
                        EXCEPT !.log = <<"InitBudget">>]
  /\ op' = "TransposeRun"
  /\ pre_offset' = offset
  /\ pre_data' = data
  /\ pre_base_rowid' = base_rowid
  /\ transpose' = EmptyPage
  /\ err' = "none"
  /\ UNCHANGED <<offset, data, base_rowid, batch, missing, other, ret, meta>>

\* builder.AddBudget(entry.index, tid) for the next entry of some worker
TransposeCountStep ==
  /\ run.phase = "count"
  /\ \E t \in 0..(run.nthr - 1) :
       /\ ThreadRuns(run.st, t)
       /\ ~RowsDone(offset, t, run.nthr, run.pos1)
       /\ LET ip == ThreadEntries(offset, t, run.nthr)[run.pos1[t] + 1]
              key == TransposeKey(data[ip[2]])
          IN  IF AddBudgetRejects(run.st.builder, key)
                THEN run' = [run EXCEPT !.st.threw[t] = "builder", !.pos1[t] = @ + 1]
                ELSE run' = [run EXCEPT !.st.builder = AddBudget(@, key, t),
                                        !.pos1[t] = @ + 1,
                                        !.added[t] = Append(@, key),
                                        !.log = Append(@, "AddBudget")]
  /\ UNCHANGED <<offset, data, ret, err, transpose>>
  /\ CallRecord

\* the end of the first ParallelFor, which rethrows what a worker threw
TransposeJoin ==
  /\ run.phase = "count"
  /\ \A t \in 0..(run.nthr - 1) :
       ~ThreadRuns(run.st, t) \/ RowsDone(offset, t, run.nthr, run.pos1)
  /\ LET thrown == {run.st.threw[t] : t \in 0..(run.nthr - 1)} \ {"none"}
     IN  IF thrown # {}
           THEN /\ run' = [run EXCEPT !.phase = "failed"]
                /\ err' \in thrown
           ELSE /\ run' = [run EXCEPT !.phase = "TransposeStorage"]
                /\ err' = err
  /\ UNCHANGED <<offset, data, ret, transpose>>
  /\ CallRecord

\* builder.InitStorage(), on transpose.offset and transpose.data
TransposeInitStorage ==
  /\ run.phase = "TransposeStorage"
  /\ LET s0 == InitStorage(run.st.builder, transpose.offset, transpose.data)
     IN  /\ run' = [run EXCEPT !.phase = "place", !.storage = s0,
                               !.log = Append(@, "InitStorage")]
         /\ transpose' = [offset |-> s0.rptr, data |-> s0.data]
  /\ UNCHANGED <<offset, data, ret, err>>
  /\ CallRecord

\* builder.Push(entry.index, Entry(base_rowid + i, entry.fvalue), tid) for the
\* next entry of some worker
TransposePlaceStep ==
  /\ run.phase = "place"
  /\ \E t \in 0..(run.nthr - 1) :
       /\ ~RowsDone(offset, t, run.nthr, run.pos2)
       /\ LET ip == ThreadEntries(offset, t, run.nthr)[run.pos2[t] + 1]
              s1 == BuilderPush(run.storage, TransposeKey(data[ip[2]]),
                                TransposedEntry(base_rowid, ip[1], data[ip[2]].fvalue),
                                PlaceThread(t, run.nthr))
              uk == AdvancedCursor(run.storage.cursor, s1.cursor)
              rp == run.storage.cursor[uk[1]][uk[2]]
          IN  /\ run' = [run EXCEPT
                           !.storage = s1,
                           !.pos2[t] = @ + 1,
                           !.wrote[t] = Append(@, <<uk[2] - 1, rp, s1.data[rp + 1]>>),
                           !.log = Append(@, "Push")]
              /\ transpose' = [offset |-> s1.rptr, data |-> s1.data]
  /\ UNCHANGED <<offset, data, ret, err>>
  /\ CallRecord

\* the end of the second ParallelFor, the fill of the offsets of a page without
\* entries, CHECK_EQ(transpose.offset.Size(), num_columns + 1) and the return
TransposeReturn ==
  /\ run.phase = "place"
  /\ \A t \in 0..(run.nthr - 1) : RowsDone(offset, t, run.nthr, run.pos2)
  /\ LET t_offset == IF Len(data) = 0 THEN [k \in 1..(arg + 1) |-> 0]
                                      ELSE transpose.offset
     IN  IF Len(t_offset) # arg + 1
           THEN /\ run' = [run EXCEPT !.phase = "failed"]
                /\ err' = "check"
                /\ transpose' = EmptyPage
           ELSE /\ run' = [run EXCEPT !.phase = "done"]
                /\ err' = err
                /\ transpose' = [offset |-> t_offset, data |-> transpose.data]
  /\ UNCHANGED <<offset, data, ret>>
  /\ CallRecord

NextRun ==
  \/ EnterPush
  \/ Pass1ThreadStep
  \/ Rethrow
  \/ CheckValid
  \/ ReduceMaxColumns
  \/ InitStorageStep
  \/ Pass2ThreadStep
  \/ ReturnPush
  \/ EnterTranspose
  \/ TransposeCountStep
  \/ TransposeJoin
  \/ TransposeInitStorage
  \/ TransposePlaceStep
  \/ TransposeReturn

SpecRun == InitRun /\ [][NextRun]_vars

\* the call in progress has left the first parallel region
PastPass1 ==
  \/ run.phase \in {"CheckValid", "Reduce", "InitStorage", "pass2"}
  \/ run.phase = "done" /\ BatchSize(batch) > 0
  \/ run.phase = "failed" /\ err = "inf"

\* a call that has ended agrees with Push(batch) taken as one step
RunAgreesWithPush ==
  (op = "PushRun" /\ run.phase \in {"done", "failed"}) =>
    LET r == PushAdapter(pre_offset, pre_data, pre_base_rowid, batch, missing, nthread)
    IN  /\ err \in r.errs
        /\ offset = r.offset
        /\ data = r.data
        /\ ret = r.ret

\* a GetTranspose that has ended agrees with GetTranspose taken as one step
TransposeRunAgrees ==
  (op = "TransposeRun" /\ run.phase \in {"done", "failed"}) =>
    LET r == GetTranspose(offset, data, base_rowid, arg, nthread)
    IN  /\ err \in r.errs
        /\ transpose = [offset |-> r.offset, data |-> r.data]

\* C20: the admissibility failure is raised only when every worker has gone
\* through its entire slice, also the workers that were still scanning when
\* valid became false, and it is raised before InitStorage() and before any
\* step of the second pass: the page is as it was before the call
C20_DeferredErrorReporting ==
  op = "PushRun" =>
    /\ (PastPass1 /\ \A t \in 0..(run.nthr - 1) : run.st.threw[t] = "none") =>
         \A t \in 0..(run.nthr - 1) : SliceDone(batch, t, run.nthr, run.pos1)
    /\ err = "inf" =>
         /\ run.phase = "failed"
         /\ \A t \in 0..(run.nthr - 1) : SliceDone(batch, t, run.nthr, run.pos1)
         /\ \A t \in 0..(run.nthr - 1) : run.pos2[t] = 0
         /\ run.storage = NoStorage
         /\ offset = pre_offset
         /\ data = pre_data
    /\ (run.phase \in {"Reduce", "InitStorage", "pass2", "done"}) => run.st.valid

\* the failure was raised in a call with two workers, the first of which met
\* the infinite value and the second of which had a tuple to scan
C20_Witness ==
  /\ op = "PushRun"
  /\ err = "inf"
  /\ run.nthr = 2
  /\ Len(ThreadTuples(batch, 0, 2)) >= 1
  /\ IsInf(ThreadTuples(batch, 0, 2)[1].value)
  /\ Len(ThreadTuples(batch, 1, 2)) >= 1
  /\ run.pos1[1] = Len(ThreadTuples(batch, 1, 2))

----------------------------------------------------------------------------
(* The second pass of Push(batch) and of GetTranspose, over every           *)
(* interleaving of the workers                                              *)

\* a builder Push of the call in progress: worker t's j-th
Writes ==
  IF run.phase = "idle" THEN {}
  ELSE UNION {{<<t, j>> : j \in 1..Len(run.wrote[t])} : t \in 0..(run.nthr - 1)}
\* the group, the position in data and the entry written by a builder Push
WriteGroup(w) == run.wrote[w[1]][w[2]][1]
WritePos(w) == run.wrote[w[1]][w[2]][2]
WriteEntry(w) == run.wrote[w[1]][w[2]][3]

\* the offsets and the data the builder of the call in progress fills
BuiltOffset == IF op = "TransposeRun" THEN transpose.offset ELSE offset
BuiltData == IF op = "TransposeRun" THEN transpose.data ELSE data
\* the positions of data InitStorage() has allocated
NewRegion ==
  IF op = "TransposeRun" THEN 0..(Len(transpose.data) - 1)
  ELSE Len(pre_data)..(Len(data) - 1)

\* the second pass is running or has ended with the call's return
SecondPass == run.phase \in {"pass2", "place"} \/ (run.phase = "done" /\ run.log # <<>>)

\* C21: during the second pass of Push(batch) and of GetTranspose, under every
\* interleaving of the workers, no two builder Push steps write the same
\* position of data, every write lands inside the offset range of its own
\* group, and when the pass has ended every position of the newly allocated
\* region has been written exactly once
C21_DisjointWrites ==
  SecondPass =>
    /\ \A w1, w2 \in Writes : w1 # w2 => WritePos(w1) # WritePos(w2)
    /\ \A w \in Writes :
         /\ WriteGroup(w) + 2 <= Len(BuiltOffset)
         /\ BuiltOffset[WriteGroup(w) + 1] <= WritePos(w)
         /\ WritePos(w) < BuiltOffset[WriteGroup(w) + 2]
    /\ run.phase = "done" => {WritePos(w) : w \in Writes} = NewRegion

\* a GetTranspose has ended in which two workers wrote entries of the same
\* column
C21_Witness ==
  /\ op = "TransposeRun"
  /\ run.phase = "done"
  /\ run.nthr = 2
  /\ \E w1, w2 \in Writes :
       w1[1] = 0 /\ w2[1] = 1 /\ WriteGroup(w1) = WriteGroup(w2)

\* the groups the builder of the call in progress was asked about
GroupsAsked ==
  IF run.phase = "idle" THEN {}
  ELSE UNION {{run.added[t][j] : j \in 1..Len(run.added[t])} : t \in 0..(run.nthr - 1)}
       \cup {WriteGroup(w) : w \in Writes}

\* the number of AddBudget(g, t) calls of the first pass
Budgeted(t, g) == Count(run.added[t], g)
\* the number of builder Push(g, ., t) calls of the second pass
PushedTo(t, g) == Cardinality({w \in Writes : w[1] = t /\ WriteGroup(w) = g})

\* C22: for every thread t and group g the second pass makes as many builder
\* Push(g, ., t) calls as the first pass made AddBudget(g, t) calls, in
\* Push(batch) and in GetTranspose (and never more while the pass is running)
C22_PushesMatchBudgets ==
  SecondPass =>
    \A t \in 0..(run.nthr - 1) :
      \A g \in GroupsAsked :
        /\ PushedTo(t, g) <= Budgeted(t, g)
        /\ run.phase = "done" => PushedTo(t, g) = Budgeted(t, g)

\* a Push(batch) of two workers has returned: the first budgeted and pushed an
\* entry, the tuple of the second was filtered out in both passes
C22_Witness ==
  /\ op = "PushRun"
  /\ run.phase = "done"
  /\ run.nthr = 2
  /\ Len(run.added[0]) = 1
  /\ Len(run.wrote[0]) = 1
  /\ Len(ThreadTuples(batch, 1, 2)) = 1
  /\ run.added[1] = <<>>

\* the places of the builder's call log holding call c
CallsOf(c) == {i \in 1..Len(run.log) : run.log[i] = c}

\* C23: in a Push(batch) of a non-empty batch and in GetTranspose, InitBudget
\* comes before the first AddBudget, InitStorage is called exactly once, every
\* AddBudget comes before InitStorage and every builder Push after it
C23_BuilderProtocol ==
  (run.phase # "idle" /\ run.log # <<>>) =>
    /\ run.log[1] = "InitBudget"
    /\ CallsOf("InitBudget") = {1}
    /\ Cardinality(CallsOf("InitStorage")) <= 1
    /\ run.phase \in {"pass2", "place", "done"} => Cardinality(CallsOf("InitStorage")) = 1
    /\ \A i \in CallsOf("AddBudget") : \A j \in CallsOf("InitStorage") : i < j
    /\ \A i \in CallsOf("Push") : \E j \in CallsOf("InitStorage") : j < i

\* a Push(batch) of two workers has returned after two AddBudget calls and two
\* builder Push calls
C23_Witness ==
  /\ op = "PushRun"
  /\ run.phase = "done"
  /\ run.nthr = 2
  /\ Cardinality(CallsOf("AddBudget")) = 2
  /\ Cardinality(CallsOf("Push")) = 2

\* the lines thread t of nthr has under the rule: from t * floor(n / nthr) up to
\* (t + 1) * floor(n / nthr), the last thread up to n
RuleLines(t, n, nthr) ==
  {i \in 0..(n - 1) :
     /\ i >= t * (n \div nthr)
     /\ i < (IF t = nthr - 1 THEN n ELSE (t + 1) * (n \div nthr))}

\* the lines between begin and end of thread t in the call in progress
LoopLines(t) ==
  LET n == BatchSize(batch)
      thread_size == ThreadSize(n, run.nthr)
  IN  {i \in 0..(n - 1) :
         /\ i >= SliceBegin(t, thread_size)
         /\ i < SliceEnd(t, run.nthr, thread_size, n)}

\* the lines of a set that carry a tuple
Carrying(ls) == {i \in ls : Len(batch.lines[i + 1]) > 0}

\* C24: in Push(batch) thread t processes the lines from t * floor(n / nthread)
\* up to (t + 1) * floor(n / nthread), the last thread up to n; every line is
\* processed by exactly one thread in either pass, and by the same thread in
\* both, also when nthread exceeds n
C24_StaticSlices ==
  (op = "PushRun" /\ run.phase # "idle") =>
    LET n == BatchSize(batch)
    IN  /\ \A t \in 0..(run.nthr - 1) :
             /\ LoopLines(t) = RuleLines(t, n, run.nthr)
             /\ run.lines1[t] \subseteq Carrying(LoopLines(t))
             /\ run.lines2[t] \subseteq Carrying(LoopLines(t))
             /\ run.phase \in {"CheckValid", "Reduce", "InitStorage", "pass2"} =>
                  run.lines1[t] = Carrying(LoopLines(t))
             /\ (run.phase = "done" /\ n > 0) =>
                  /\ run.lines1[t] = Carrying(LoopLines(t))
                  /\ run.lines2[t] = run.lines1[t]
        /\ \A i \in 0..(n - 1) :
             Cardinality({t \in 0..(run.nthr - 1) : i \in LoopLines(t)}) = 1

\* a Push(batch) of two workers on a batch of one line has returned: the line
\* was the second worker's in both passes
C24_Witness ==
  /\ op = "PushRun"
  /\ run.phase = "done"
  /\ run.nthr = 2
  /\ BatchSize(batch) = 1
  /\ run.lines1[0] = {}
  /\ run.lines1[1] = {0}
  /\ run.lines2[1] = {0}

RECURSIVE SelectSeq2(_, _)
\* the entries a worker's traversal pushes: those of its tuples that IsValid
\* keeps, as Entry(column_idx, value), in the order of the traversal
SelectSeq2(ts, miss) ==
  IF Len(ts) = 0 THEN <<>>
  ELSE (IF IsValid(ts[1].value, miss) THEN <<Entry(ts[1].column_idx, ts[1].value)>> ELSE <<>>)
       \o SelectSeq2(Tail(ts), miss)

RECURSIVE RowsOfWorker(_, _, _)
\* the entries worker t's traversal of GetTranspose pushes: for its rows in
\* ascending order, the row's entries in stored order, each with the row's
\* absolute index
RowsOfWorker(t, nthr, i) ==
  IF i >= Size(offset) THEN <<>>
  ELSE (IF ThreadOfIteration(i, Size(offset), nthr) = t
          THEN [j \in 1..(offset[i + 2] - offset[i + 1]) |->
                  Entry(base_rowid + i, data[offset[i + 1] + j].fvalue)]
          ELSE <<>>)
       \o RowsOfWorker(t, nthr, i + 1)

\* what worker t pushes over its whole second pass, in the order of its traversal
Traversal(t) ==
  IF op = "TransposeRun" THEN RowsOfWorker(t, run.nthr, 0)
  ELSE LET n == BatchSize(batch)
           q == n \div run.nthr
           first == t * q
           last == IF t = run.nthr - 1 THEN n ELSE (t + 1) * q
       IN  SelectSeq2(SliceTuples(batch.lines, first, last), missing)

\* C25: within the slice of a group the entries of thread t precede those of
\* every thread t' > t, and the entries of one thread appear in the order of
\* its traversal of the second pass, in GetTranspose and in Push(batch)
C25_ThreadOrderWithinGroup ==
  SecondPass =>
    /\ \A w1, w2 \in Writes :
         (WriteGroup(w1) = WriteGroup(w2)
          /\ (w1[1] < w2[1] \/ (w1[1] = w2[1] /\ w1[2] < w2[2])))
           => WritePos(w1) < WritePos(w2)
    /\ \A w \in Writes :
         /\ w[2] <= Len(Traversal(w[1]))
         /\ WriteEntry(w) = Traversal(w[1])[w[2]]
         /\ WritePos(w) < Len(BuiltData)
         /\ BuiltData[WritePos(w) + 1] = WriteEntry(w)
    /\ run.phase = "done" =>
         \A t \in 0..(run.nthr - 1) : Len(run.wrote[t]) = Len(Traversal(t))

\* a GetTranspose of two workers has returned in which either worker wrote an
\* entry of the same column
C25_Witness ==
  /\ op = "TransposeRun"
  /\ run.phase = "done"
  /\ run.nthr = 2
  /\ Len(run.wrote[0]) >= 1
  /\ Len(run.wrote[1]) >= 1
  /\ run.wrote[0][1][1] = run.wrote[1][1][1]
  /\ run.wrote[0][1][2] < run.wrote[1][1][2]

\* Push(batch) of the call in progress as a single thread carries it out
SingleThreaded == PushAdapter(pre_offset, pre_data, pre_base_rowid, batch, missing, 1)

\* C27: for a row-major batch whose line i holds the tuples of one row,
\* Push(batch) leaves the same offset, the same data (order included) and
\* returns the same value for every nthread >= 1 and under every interleaving
\* of the workers: those of the call carried out by one thread
C27_ThreadCountIndependence ==
  (op = "PushRun" /\ batch.rowMajor /\ run.phase \in {"done", "failed"}) =>
    /\ offset = SingleThreaded.offset
    /\ data = SingleThreaded.data
    /\ ret = SingleThreaded.ret
    /\ (err = "none") = (SingleThreaded.errs = {"none"})

\* a Push(batch) of a row-major batch by two workers has returned, each of
\* which wrote an entry
C27_Witness ==
  /\ op = "PushRun"
  /\ batch.rowMajor
  /\ run.phase = "done"
  /\ nthread = 2
  /\ run.nthr = 2
  /\ Len(run.wrote[0]) >= 1
  /\ Len(run.wrote[1]) >= 1
  /\ Len(data) = Len(pre_data) + 2

----------------------------------------------------------------------------
(* The row count after Push(batch)                                          *)

\* line k (counted from 0) of the batch pushed carries row index
\* base_rowid + r + k, r being the page's row count before the call
LinesFollowPage ==
  \A i \in 1..BatchSize(batch) :
    \A j \in 1..Len(batch.lines[i]) :
      batch.lines[i][j].row_idx = pre_base_rowid + PreRows + i - 1

\* no tuple of line i of the batch pushed is kept by the filter
LineWithoutValid(i) ==
  \A j \in 1..Len(batch.lines[i]) : ~IsValid(batch.lines[i][j].value, missing)

\* C28: a successful Push of a row-major batch of n lines whose line k carries
\* row index base_rowid + r + k, r being the row count before the call, leaves
\* the page with exactly r + n rows, also when r > 0 and when the last lines
\* of the batch hold no valid tuple
C28_RowCountAfterAppend ==
  (PushReturned /\ batch.rowMajor /\ LinesFollowPage) =>
    Rows = PreRows + BatchSize(batch)

\* a Push onto a page of one row has returned; the batch had two lines, the
\* first with a valid tuple, the last with a tuple the filter drops
C28_Witness ==
  /\ PushReturned
  /\ batch.rowMajor
  /\ LinesFollowPage
  /\ PreRows = 1
  /\ BatchSize(batch) = 2
  /\ ~LineWithoutValid(1)
  /\ Len(batch.lines[2]) = 1
  /\ LineWithoutValid(2)
  /\ Rows = 3

----------------------------------------------------------------------------
(* Reindex                                                                  *)

\* a and b stand for 32-bit unsigned numbers, a negative one for 2^32 less its
\* magnitude: their sum as numbers is 2^32 or more, so the 32-bit sum has wrapped
Wraps(a, b) ==
  IF a < 0 /\ b < 0 THEN TRUE
  ELSE IF a >= 0 /\ b >= 0 THEN FALSE
  ELSE a + b >= 0

\* after a Reindex: values, order of entries, offset and base_rowid are as
\* they were
ReindexKeepsTheRest ==
  /\ offset = pre_offset
  /\ base_rowid = pre_base_rowid
  /\ Len(data) = Len(pre_data)
  /\ \A p \in 1..Len(data) : data[p].fvalue = pre_data[p].fvalue

\* after two Reindex calls: the page is the one a single Reindex with the sum
\* of the two offsets makes of the page before both
ReindexComposes ==
  /\ offset = other.offset
  /\ data = Reindex(other.data, arg)

C29_ReindexPreservesSortedness ==
  (op = "Reindex" /\ IsIndicesSorted(pre_offset, pre_data, nthread)) =>
    IsIndicesSorted(offset, data, nthread)

----------------------------------------------------------------------------
(* MetaInfo::Extend and MetaInfo::Copy.  Of a MetaInfo the model keeps      *)
(* num_row_, num_col_, weights_ and group_ptr_; labels, label bounds, base  *)
(* margin and feature info are extended by calls that neither read nor      *)
(* write these four.                                                        *)

\* MetaInfo(): the shape zeroed, the vectors empty
NewInfo == [num_row_ |-> 0, num_col_ |-> 0, weights_ |-> <<>>, group_ptr_ |-> <<>>]

\* the values of num_col_ of an argument
InfoColumns == 0..2

\* the MetaInfo objects Extend is given
Infos ==
  {[num_row_ |-> r, num_col_ |-> c, weights_ |-> w, group_ptr_ |-> g] :
     r \in 0..1, c \in InfoColumns, w \in {<<>>, <<1>>}, g \in {<<>>, <<0, 1>>}}

\* this->Extend(that, accumulate_rows, check_column): the object afterwards
\* and "none", or the object as the failed CHECK left it and "check"
MetaExtend(self, that, accumulate_rows, check_column) ==
  LET \* if (accumulate_rows) { this->num_row_ += that.num_row_; }
      s1 == [self EXCEPT !.num_row_ = IF accumulate_rows THEN @ + that.num_row_ ELSE @]
      \* CHECK_EQ(this->num_col_, that.num_col_)
      column_check_fails ==
        self.num_col_ # 0 /\ check_column /\ self.num_col_ # that.num_col_
      \* this->num_col_ = std::max(this->num_col_, that.num_col_)
      s2 == [s1 EXCEPT !.num_col_ = IF @ # 0 /\ ~check_column
                                      THEN UMax(@, that.num_col_)
                                      ELSE @]
      \* this->num_col_ = that.num_col_, behind the if
      s3 == [s2 EXCEPT !.num_col_ = that.num_col_]
      \* this->weights_.Extend(that.weights_)
      s4 == [s3 EXCEPT !.weights_ = @ \o that.weights_]
      \* CHECK_NE(that.group_ptr_.size(), 0)
      group_check_fails == Len(self.group_ptr_) # 0 /\ Len(that.group_ptr_) = 0
      back == Last(self.group_ptr_)
      s5 == [s4 EXCEPT !.group_ptr_ =
               IF Len(@) = 0 THEN that.group_ptr_
               ELSE @ \o [i \in 1..(Len(that.group_ptr_) - 1) |->
                            that.group_ptr_[i + 1] + back]]
  IN  IF column_check_fails THEN [info |-> s1, err |-> "check"]
      ELSE IF group_check_fails THEN [info |-> s4, err |-> "check"]
      ELSE [info |-> s5, err |-> "none"]

\* the object stays within the bounds of the model
InfoWithinBounds(info) ==
  /\ info.num_row_ <= MaxInfoRows
  /\ Len(info.weights_) <= MaxInfoRows
  /\ Len(info.group_ptr_) <= MaxInfoRows + 1

InitMeta ==
  /\ offset = EmptyPage.offset
  /\ data = EmptyPage.data
  /\ base_rowid = 0
  /\ pre_base_rowid = 0
  /\ op = "init"
  /\ pre_offset = offset
  /\ pre_data = data
  /\ batch = EmptyBatch
  /\ missing = NaN
  /\ nthread = 1
  /\ other = EmptyPage
  /\ arg = 0
  /\ ret = 0
  /\ transpose = EmptyPage
  /\ err = "none"
  /\ run = NoRun
  /\ meta = [self |-> NewInfo, pre |-> NewInfo, that |-> NewInfo,
             accumulate_rows |-> FALSE, check_column |-> FALSE]

\* what a call on the MetaInfo leaves alone
PageUntouched ==
  UNCHANGED <<offset, data, base_rowid, pre_offset, pre_data, pre_base_rowid, batch,
              missing, nthread, other, arg, ret, transpose, run>>

\* this->Extend(that, accumulate_rows, check_column)
ExtendCall ==
  /\ \E that \in Infos, accumulate_rows \in BOOLEAN, check_column \in BOOLEAN :
       LET r == MetaExtend(meta.self, that, accumulate_rows, check_column)
       IN  /\ InfoWithinBounds(r.info)
           /\ meta' = [self |-> r.info, pre |-> meta.self, that |-> that,
                       accumulate_rows |-> accumulate_rows,
                       check_column |-> check_column]
           /\ err' = r.err
  /\ op' = "Extend"
  /\ PageUntouched

\* *this = this->Copy(): MetaInfo out; out.Extend(*this, true, false); return out
CopyCall ==
  /\ LET r == MetaExtend(NewInfo, meta.self, TRUE, FALSE)
     IN  /\ meta' = [self |-> r.info, pre |-> NewInfo, that |-> meta.self,
                     accumulate_rows |-> TRUE, check_column |-> FALSE]
         /\ err' = r.err
  /\ op' = "Copy"
  /\ PageUntouched

NextMeta ==
  \/ ExtendCall
  \/ CopyCall

SpecMeta == InitMeta /\ [][NextMeta]_vars

\* C30: after MetaInfo::Extend(that, accumulate_rows, check_column = false)
\* num_col_ is the maximum of its previous value and that.num_col_, so the
\* column count never decreases over a sequence of Extend calls; with
\* accumulate_rows = true num_row_ has grown by exactly that.num_row_, with
\* accumulate_rows = false it is unchanged
C30_ExtendShape ==
  (op \in {"Extend", "Copy"} /\ err = "none" /\ ~meta.check_column) =>
    /\ meta.self.num_col_ = Max(meta.pre.num_col_, meta.that.num_col_)
    /\ meta.self.num_col_ >= meta.pre.num_col_
    /\ meta.accumulate_rows => meta.self.num_row_ = meta.pre.num_row_ + meta.that.num_row_
    /\ ~meta.accumulate_rows => meta.self.num_row_ = meta.pre.num_row_

====
